---------------------------- MODULE Spec2Model ----------------------------
(***************************************************************************)
(* A model of github.com/tetratelabs/log: the process-wide registry of     *)
(* named loggers, the Logger value with its copy-on-write derivations      *)
(* (With / Context / Metric), the level gate, and the two line formatters. *)
(*                                                                         *)
(* Callers are threads.  A call is invoked (its arguments are fixed), and  *)
(* then runs in the atomic steps the code's synchronisation gives it: a    *)
(* registry critical section (sync.RWMutex) is one step, an atomic load or *)
(* store of the level is one step.                                         *)
(***************************************************************************)
EXTENDS Integers, Sequences, FiniteSets, TLC

(***************************************************************************)
(* Bounds of the model.                                                    *)
(***************************************************************************)
NumThreads == 2

\* The *Logger objects on the heap up to which values are derived, in the
\* specification of derivation and in the one of emission.
MaxObjs == 3

MaxEmitters == 2

\* The lines the sink takes, and the RecordContext calls the metrics take.
MaxLines == 1

Threads == 1..NumThreads

\* The one thread of the sequential specifications.
MainThread == CHOOSE t \in Threads : \A u \in Threads : t <= u

Names == {"a", "b"}

Descriptions == {"d1", "d2"}

\* The description concurrent callers pass: no claim about them reads it.
ConcurrentDescriptions == {"d1"}

\* The name and description of the logger the emission specifications register.
LoggerNames == {"a"}

(***************************************************************************)
(* Values of type interface{}: text, or something else.                    *)
(***************************************************************************)
Str(s) == [t |-> "string", v |-> s]

Num(s) == [t |-> "int", v |-> s]

IsString(x) == x.t = "string"

\* The arguments given to With.
WithKeyValues ==
    {<<>>, <<Num("1"), Str("")>>, <<Str("lvl"), Str("info")>>, <<Str("missing")>>}

\* The call-site arguments given to Info, Error and Debug.
CallKeyValues == {<<Str("where"), Str("there"), Num("1"), Str("1")>>}

Messages == {"text"}

Errors == {"error"}

\* context.Context values, by the key-value pairs they carry.
Background == [keyValues |-> <<>>]

Contexts == {Background, [keyValues |-> <<Str("ctx"), Str("value")>>]}

Metrics == {"m1"}

\* What KeyValuesFromContext may give for a context: the flat sequences the
\* formatters are applied to.
FormatContexts ==
    Contexts \cup
    {[keyValues |-> <<Str("ctx")>>],
     [keyValues |-> <<Num("1"), Str("x")>>],
     [keyValues |-> <<Str("ctx"), Str("value"), Str("k")>>],
     [keyValues |-> <<Str("ctx"), Str("value"), Num("1"), Str("x")>>]}

FormatWithKeyValues == WithKeyValues \cup {<<Str("a"), Str("b"), Str("c")>>}

\* The arguments With is called with where With itself is looked at.
DeriveWithKeyValues ==
    FormatWithKeyValues \cup
    {<<Str("k"), Str("v"), Num("1"), Str("x"), Str("w"), Str("z")>>}

FormatCallKeyValues ==
    CallKeyValues \cup {<<>>, <<Str("where")>>, <<Str("lvl"), Str("call")>>}

\* The messages of the formatter tests: a plain one and a printf format, and
\* the operands the printf format is called with.
FormatMessages == Messages \cup {"hi %s"}

PrintfOperands == {<<Str("there")>>}

(***************************************************************************)
(* Level                                                                   *)
(***************************************************************************)
LevelNone == 0

LevelError == 1

LevelInfo == 2

LevelDebug == 3

Levels == {LevelNone, LevelError, LevelInfo, LevelDebug}

VARIABLES
    loggers,    \* registry.loggers: a map from name to Scope
    heap,       \* the *Logger objects allocated so far, by address
    levels,     \* the int32 cells the level pointers point to, by address
    sink,       \* what has been written to the writer, piece by piece per line
    recorded,   \* the RecordContext calls the metrics have received, in order
    pc,         \* per thread: where it is in the call it runs
    call,       \* per thread: the arguments of the call it runs
    last,       \* the call that returned last, and what it returned
    returned,   \* history: per name, what the Register* calls returned
    origin,     \* history: per *Logger, the newLogger result it derives from
    discards,   \* the *Discard objects allocated so far, by address
    arrays,     \* the backing arrays of the args slices, by address
    mu          \* registry.mu: the sync.RWMutex of the registry

regVars == <<loggers, heap, levels, origin, discards, arrays, mu>>

logVars == <<sink, recorded>>

vars ==
    <<loggers, heap, levels, sink, recorded, pc, call, last, returned, origin,
      discards, arrays, mu>>

(***************************************************************************)
(* Scope values: a *Logger (an address in the heap) or a *Discard.         *)
(***************************************************************************)
LoggerScope(p) == [kind |-> "Logger", ptr |-> p]

NewDiscard == [kind |-> "Discard", ptr |-> 0]

NoScope == [kind |-> "nil", ptr |-> 0]

NoError == ""

NoCall ==
    [name |-> "", description |-> "", l |-> 0, new |-> 0, msg |-> "",
     err |-> NoError, keyValues |-> <<>>]

RegisterArgs(name, description) ==
    [NoCall EXCEPT !.name = name, !.description = description]

NoRet == [op |-> "none", name |-> "", description |-> "", scope |-> NoScope,
          ok |-> FALSE, created |-> FALSE, list |-> <<>>]

(***************************************************************************)
(* Logger: the args slice.  A slice is the address of its backing array,   *)
(* its length and its capacity; the nil slice has no array.  A backing     *)
(* array has as many cells as the capacity it was allocated with.          *)
(***************************************************************************)
NilSlice == [arr |-> 0, len |-> 0, cap |-> 0]

\* The zero value of interface{}, in the cells past the length.
NilValue == [t |-> "nil", v |-> ""]

\* The elements of the slice s in the arrays st.
sliceValues(st, s) == IF s.arr = 0 THEN <<>> ELSE SubSeq(st[s.arr], 1, s.len)

\* l.args as the formatters and clone read it.
Args(l) == sliceValues(arrays, l.args)

\* The capacity append gives a slice of capacity oldCap grown to newLen
\* elements: the runtime doubles a small slice unless that is not enough.
growslice(oldCap, newLen) == IF newLen > 2 * oldCap THEN newLen ELSE 2 * oldCap

\* append(s, k, v) for the slice b.slice in the arrays b.arrays: in place
\* when the capacity allows, else into a new array; the arrays and the slice
\* after it.
appendSlice(b, k, v) ==
    LET s == b.slice
        n == s.len + 2
    IN IF n <= s.cap
       THEN [arrays |-> [b.arrays EXCEPT ![s.arr] =
                            [@ EXCEPT ![s.len + 1] = k, ![s.len + 2] = v]],
             slice |-> [s EXCEPT !.len = n]]
       ELSE [arrays |-> Append(b.arrays,
                               sliceValues(b.arrays, s) \o <<k, v>>
                               \o [i \in 1..(growslice(s.cap, n) - n) |-> NilValue]),
             slice |-> [arr |-> Len(b.arrays) + 1, len |-> n,
                        cap |-> growslice(s.cap, n)]]

(***************************************************************************)
(* Logger construction.  lvl is the address of the fresh level cell.       *)
(***************************************************************************)
newLogger(name, description, lvl) ==
    [ctx |-> Background, args |-> NilSlice, metric |-> "nil", name |-> name,
     description |-> description, level |-> lvl, writer |-> "stdout",
     emit |-> "structuredLog"]

\* newUnstructured without the assignment of emit.
newUnstructuredKeepsEmit(name, description, lvl) ==
    newLogger(name, description, lvl)

newUnstructured(name, description, lvl) ==
    [newLogger(name, description, lvl) EXCEPT !.emit = "unstructuredLog"]

(***************************************************************************)
(* registry                                                                *)
(***************************************************************************)
\* registry.GetLogger that finds nothing.
registryGetLoggerMisses(name) == [logger |-> NewDiscard, ok |-> FALSE]

\* registry.GetLogger: the map read under RLock, then the miss test.
registryGetLogger(name) ==
    IF name \in DOMAIN loggers
    THEN [logger |-> loggers[name], ok |-> TRUE]
    ELSE [logger |-> NewDiscard, ok |-> FALSE]

\* registry.Register that stores under one fixed key.
registryRegisterOneKey(key, logger) == [k \in {"a"} |-> logger]

\* registry.Register that replaces the map by one holding the new entry alone.
registryRegisterAlone(key, logger) == [k \in {key} |-> logger]

\* registry.Register: r.loggers[logger.Name()] = logger under Lock; the map after.
registryRegister(key, logger) ==
    [k \in DOMAIN loggers \cup {key} |-> IF k = key THEN logger ELSE loggers[k]]

\* The orders in which a range over a map with these keys may visit them.
RECURSIVE Orders(_)
Orders(S) ==
    IF S = {} THEN {<<>>}
    ELSE UNION {{<<k>> \o o : o \in Orders(S \ {k})} : k \in S}

\* registry.Loggers whose iteration stops before the last key.
registryLoggersShort ==
    {[i \in 1..(Len(o) - 1) |-> loggers[o[i]]] : o \in Orders(DOMAIN loggers)}

\* registry.Loggers: the slices the iteration over the map can build.
registryLoggers ==
    {[i \in 1..Len(o) |-> loggers[o[i]]] : o \in Orders(DOMAIN loggers)}

(***************************************************************************)
(* sync.RWMutex, as registry.mu uses it.  w is the goroutine that has the   *)
(* writers' mutex, 0 for none: from then on RLock blocks.  locked says that *)
(* this writer has the lock, which it gets when the readers have left.      *)
(* readers counts the read locks each goroutine holds.                      *)
(***************************************************************************)
\* The zero value: an unlocked mutex.
RWMutex == [w |-> 0, locked |-> FALSE, readers |-> [t \in Threads |-> 0]]

\* RLock of t can return: no writer has the lock or waits for it.
CanRLock(m, t) == m.w = 0

RLock(m, t) == [m EXCEPT !.readers[t] = @ + 1]

RUnlock(m, t) == [m EXCEPT !.readers[t] = @ - 1]

\* Lock of t, first half: t takes the writers' mutex and turns readers away.
CanLock(m, t) == m.w = 0

Lock(m, t) == [m EXCEPT !.w = t]

\* Lock of t, second half: the readers that had the lock have left.
CanLocked(m, t) == m.w = t /\ \A u \in Threads : m.readers[u] = 0

Locked(m, t) == [m EXCEPT !.locked = TRUE]

Unlock(m, t) == [m EXCEPT !.w = 0, !.locked = FALSE]

\* t holds the lock, for reading or for writing, or is in Lock.
Holds(m, t) == m.w = t \/ m.readers[t] > 0

\* A call of thread t returns r.
Return(t, r) ==
    /\ pc' = [pc EXCEPT ![t] = "idle"]
    /\ call' = [call EXCEPT ![t] = NoCall]
    /\ last' = r

\* What a caller sees of the Scope it was handed, on the heap h.
Observed(s, h) ==
    [scope |-> s,
     description |-> IF s.kind = "Logger" THEN h[s.ptr].description ELSE "",
     emit |-> IF s.kind = "Logger" THEN h[s.ptr].emit ELSE ""]

Handed(name, s, h) == [returned EXCEPT ![name] = @ \cup {Observed(s, h)}]

Init ==
    /\ loggers = <<>>
    /\ heap = <<>>
    /\ levels = <<>>
    /\ origin = <<>>
    /\ sink = <<>>
    /\ recorded = <<>>
    /\ pc = [t \in Threads |-> "idle"]
    /\ call = [t \in Threads |-> NoCall]
    /\ last = NoRet
    /\ returned = [n \in Names |-> {}]
    /\ discards = <<>>
    /\ arrays = <<>>
    /\ mu = RWMutex

(***************************************************************************)
(* Register(name, description)                                             *)
(***************************************************************************)
\* if l, ok := reg.GetLogger(name); ok { return l }
Register(t, name, description) ==
    /\ pc[t] = "idle"
    /\ LET r == registryGetLogger(name) IN
       IF r.ok
       THEN /\ Return(t, [NoRet EXCEPT !.op = "Register", !.name = name,
                             !.description = description,
                             !.scope = r.logger, !.ok = TRUE])
            /\ returned' = Handed(name, r.logger, heap)
       ELSE /\ pc' = [pc EXCEPT ![t] = "Register.newLogger"]
            /\ call' = [call EXCEPT ![t] = RegisterArgs(name, description)]
            /\ UNCHANGED <<last, returned>>
    /\ UNCHANGED <<regVars, logVars>>

\* Register whose newLogger starts the level at LevelDebug.
RegisterNewLoggerAtDebug(t) ==
    /\ pc[t] = "Register.newLogger"
    /\ LET lvl == Len(levels) + 1
           p == Len(heap) + 1
           l == newLogger(call[t].name, call[t].description, lvl)
       IN /\ levels' = Append(levels, LevelDebug)
          /\ heap' = Append(heap, l)
          /\ loggers' = registryRegister(l.name, LoggerScope(p))
          /\ Return(t, [NoRet EXCEPT !.op = "Register", !.name = call[t].name,
                           !.description = call[t].description,
                           !.scope = LoggerScope(p), !.ok = TRUE,
                           !.created = TRUE])
          /\ origin' = Append(origin, p)
          /\ returned' = Handed(call[t].name, LoggerScope(p), heap')
          /\ UNCHANGED <<logVars, discards, mu, arrays>>

\* l := newLogger(name, description); reg.Register(l); return l
RegisterNewLogger(t) ==
    /\ pc[t] = "Register.newLogger"
    /\ LET lvl == Len(levels) + 1
           p == Len(heap) + 1
           l == newLogger(call[t].name, call[t].description, lvl)
       IN /\ levels' = Append(levels, LevelInfo)
          /\ heap' = Append(heap, l)
          /\ loggers' = registryRegister(l.name, LoggerScope(p))
          /\ Return(t, [NoRet EXCEPT !.op = "Register", !.name = call[t].name,
                           !.description = call[t].description,
                           !.scope = LoggerScope(p), !.ok = TRUE,
                           !.created = TRUE])
          /\ origin' = Append(origin, p)
          /\ returned' = Handed(call[t].name, LoggerScope(p), heap')
          /\ UNCHANGED <<logVars, discards, mu, arrays>>

(***************************************************************************)
(* RegisterUnstructured(name, description)                                 *)
(***************************************************************************)
RegisterUnstructured(t, name, description) ==
    /\ pc[t] = "idle"
    /\ LET r == registryGetLogger(name) IN
       IF r.ok
       THEN /\ Return(t, [NoRet EXCEPT !.op = "RegisterUnstructured",
                             !.name = name, !.description = description,
                             !.scope = r.logger, !.ok = TRUE])
            /\ returned' = Handed(name, r.logger, heap)
       ELSE /\ pc' = [pc EXCEPT ![t] = "RegisterUnstructured.newUnstructured"]
            /\ call' = [call EXCEPT ![t] = RegisterArgs(name, description)]
            /\ UNCHANGED <<last, returned>>
    /\ UNCHANGED <<regVars, logVars>>

RegisterUnstructuredNewUnstructured(t) ==
    /\ pc[t] = "RegisterUnstructured.newUnstructured"
    /\ LET lvl == Len(levels) + 1
           p == Len(heap) + 1
           l == newUnstructured(call[t].name, call[t].description, lvl)
       IN /\ levels' = Append(levels, LevelInfo)
          /\ heap' = Append(heap, l)
          /\ loggers' = registryRegister(l.name, LoggerScope(p))
          /\ Return(t, [NoRet EXCEPT !.op = "RegisterUnstructured",
                           !.name = call[t].name,
                           !.description = call[t].description,
                           !.scope = LoggerScope(p), !.ok = TRUE,
                           !.created = TRUE])
          /\ origin' = Append(origin, p)
          /\ returned' = Handed(call[t].name, LoggerScope(p), heap')
          /\ UNCHANGED <<logVars, discards, mu, arrays>>

(***************************************************************************)
(* GetLogger(name) and Loggers()                                           *)
(***************************************************************************)
\* A lookup that stores what it hands out on a miss.
GetLoggerOrStore(t, name) ==
    /\ pc[t] = "idle"
    /\ LET r == registryGetLogger(name) IN
       /\ Return(t, [NoRet EXCEPT !.op = "GetLogger", !.name = name,
                        !.scope = r.logger, !.ok = r.ok])
       /\ loggers' = IF r.ok THEN loggers ELSE registryRegister(name, r.logger)
    /\ UNCHANGED <<heap, levels, origin, discards, mu, arrays, logVars, returned>>

\* logger, _ := reg.GetLogger(name); return logger
GetLogger(t, name) ==
    /\ pc[t] = "idle"
    /\ LET r == registryGetLogger(name) IN
       Return(t, [NoRet EXCEPT !.op = "GetLogger", !.name = name,
                     !.scope = r.logger, !.ok = r.ok])
    /\ UNCHANGED <<regVars, logVars, returned>>

Loggers(t) ==
    /\ pc[t] = "idle"
    /\ \E s \in registryLoggers :
          Return(t, [NoRet EXCEPT !.op = "Loggers", !.list = s])
    /\ UNCHANGED <<regVars, logVars, returned>>

(***************************************************************************)
(* The registry under concurrent callers.                                  *)
(***************************************************************************)
RegistryStep(t, D) ==
    \/ \E n \in Names, d \in D : Register(t, n, d)
    \/ RegisterNewLogger(t)
    \/ \E n \in Names, d \in D : RegisterUnstructured(t, n, d)
    \/ RegisterUnstructuredNewUnstructured(t)
    \/ \E n \in Names : GetLogger(t, n)
    \/ Loggers(t)

Next == \E t \in Threads : RegistryStep(t, ConcurrentDescriptions)

Spec == Init /\ [][Next]_vars

\* One caller: every call returns before the next one starts.
NextSeq == RegistryStep(MainThread, Descriptions)

SpecSeq == Init /\ [][NextSeq]_vars

(***************************************************************************)
(* Logger: level                                                           *)
(***************************************************************************)
\* atomic.LoadInt32(l.level)
Level(l) == levels[l.level]

\* The gate that lets everything through.
enabledAlways(l, level) == TRUE

\* level <= l.Level()
enabled(l, level) == level <= Level(l)

levelToString ==
    [lv \in Levels |->
        CASE lv = LevelNone -> "none"
          [] lv = LevelError -> "error"
          [] lv = LevelInfo -> "info"
          [] lv = LevelDebug -> "debug"]
\* stringToLevel maps string representations to the corresponding level.
stringToLevel ==
    [s \in {"none", "error", "info", "debug"} |->
        CASE s = "none" -> LevelNone
          [] s = "error" -> LevelError
          [] s = "info" -> LevelInfo
          [] s = "debug" -> LevelDebug]

\* func (l Level) String() string { return levelToString[l] }: the empty
\* string for a Level that is not a key of the map.
String(l) == IF l \in DOMAIN levelToString THEN levelToString[l] ELSE ""

\* AsLevel that falls back to a level for a string it does not know.
AsLevelDefault(level) ==
    IF level \in DOMAIN stringToLevel
    THEN [level |-> stringToLevel[level], ok |-> TRUE]
    ELSE [level |-> LevelInfo, ok |-> TRUE]

\* l, ok := stringToLevel[level]; return l, ok: the zero Level on a miss.
AsLevel(level) ==
    IF level \in DOMAIN stringToLevel
    THEN [level |-> stringToLevel[level], ok |-> TRUE]
    ELSE [level |-> LevelNone, ok |-> FALSE]

\* A store that is not atomic: the cell may end up with any bit pattern.
SetLevelTorn(t, p, level) ==
    /\ pc[t] = "idle"
    /\ \E v \in Levels : levels' = [levels EXCEPT ![heap[p].level] = v]
    /\ UNCHANGED <<loggers, heap, origin, discards, mu, arrays, logVars, pc, call, last, returned>>

\* atomic.StoreInt32(l.level, int32(level))
SetLevel(t, p, level) ==
    /\ pc[t] = "idle"
    /\ levels' = [levels EXCEPT ![heap[p].level] = level]
    /\ UNCHANGED <<loggers, heap, origin, discards, mu, arrays, logVars, pc, call, last, returned>>

(***************************************************************************)
(* Logger: derivation.  clone gives the new object, the level cells and    *)
(* the arrays after it.                                                    *)
(***************************************************************************)
\* A clone that takes a level cell of its own, holding the level of now.
cloneCopiesLevel(l) ==
    [logger |-> [l EXCEPT !.level = Len(levels) + 1,
                          !.args = [arr |-> Len(arrays) + 1, len |-> l.args.len,
                                    cap |-> l.args.len]],
     levels |-> Append(levels, levels[l.level]),
     arrays |-> Append(arrays, Args(l))]

\* A clone that takes the args slice as it is: args: l.args.
cloneSharesArgs(l) ==
    [logger |-> l, levels |-> levels, arrays |-> arrays]

\* A clone built by newLogger, which leaves emit at structuredLog.
cloneForgetsEmit(l) ==
    [logger |-> [args |-> [arr |-> Len(arrays) + 1, len |-> l.args.len,
                           cap |-> l.args.len],
                 ctx |-> l.ctx, metric |-> l.metric,
                 level |-> l.level, writer |-> l.writer, name |-> l.name,
                 description |-> l.description, emit |-> "structuredLog"],
     levels |-> levels,
     arrays |-> Append(arrays, Args(l))]

\* args: make([]interface{}, len(l.args)) and copy(newLogger.args, l.args):
\* a new array of that length; every other field as in l.
clone(l) ==
    [logger |-> [args |-> [arr |-> Len(arrays) + 1, len |-> l.args.len,
                           cap |-> l.args.len],
                 ctx |-> l.ctx, metric |-> l.metric,
                 level |-> l.level, writer |-> l.writer, name |-> l.name,
                 description |-> l.description, emit |-> l.emit],
     levels |-> levels,
     arrays |-> Append(arrays, Args(l))]

\* The loop of With without the test of the key.
RECURSIVE appendPairsKeepsAll(_, _, _)
appendPairsKeepsAll(b, keyValues, i) ==
    IF i > Len(keyValues) THEN b
    ELSE appendPairsKeepsAll(appendSlice(b, keyValues[i], keyValues[i + 1]),
                             keyValues, i + 2)

\* The loop of With from index i (counted from 1) on: the pairs with a text
\* key are appended to the slice b.slice.
RECURSIVE appendPairs(_, _, _)
appendPairs(b, keyValues, i) ==
    IF i > Len(keyValues) THEN b
    ELSE appendPairs(IF IsString(keyValues[i])
                     THEN appendSlice(b, keyValues[i], keyValues[i + 1])
                     ELSE b,
                     keyValues, i + 2)

\* The clone c with the pairs of keyValues appended to its args.
withPairs(c, keyValues) ==
    LET b == appendPairs([arrays |-> c.arrays, slice |-> c.logger.args],
                         keyValues, 1)
    IN [c EXCEPT !.logger.args = b.slice, !.arrays = b.arrays]

\* The derived logger is allocated, address Len(heap) + 1, and returned.
Derive(t, p, c, op) ==
    /\ heap' = Append(heap, c.logger)
    /\ levels' = c.levels
    /\ arrays' = c.arrays
    /\ origin' = Append(origin, origin[p])
    /\ last' = [NoRet EXCEPT !.op = op, !.scope = LoggerScope(Len(heap) + 1)]
    /\ UNCHANGED <<loggers, discards, mu, logVars, pc, call, returned>>

\* With that drops a last key without value.
WithDropsOddKey(t, p, keyValues) ==
    /\ pc[t] = "idle"
    /\ IF Len(keyValues) = 0
       THEN /\ last' = [NoRet EXCEPT !.op = "With", !.scope = LoggerScope(p)]
            /\ UNCHANGED <<regVars, logVars, pc, call, returned>>
       ELSE LET kvs == IF Len(keyValues) % 2 # 0
                       THEN SubSeq(keyValues, 1, Len(keyValues) - 1)
                       ELSE keyValues
            IN Derive(t, p, withPairs(clone(heap[p]), kvs), "With")

\* With that clones also when it is given nothing.
WithAlwaysClones(t, p, keyValues) ==
    /\ pc[t] = "idle"
    /\ LET kvs == IF Len(keyValues) % 2 # 0
                  THEN Append(keyValues, Str("(MISSING)"))
                  ELSE keyValues
       IN Derive(t, p, withPairs(clone(heap[p]), kvs), "With")

\* With that appends to the receiver's own args.
WithInPlace(t, p, keyValues) ==
    /\ pc[t] = "idle"
    /\ Len(keyValues) > 0
    /\ LET b == appendPairs([arrays |-> arrays, slice |-> heap[p].args],
                            IF Len(keyValues) % 2 # 0
                            THEN Append(keyValues, Str("(MISSING)"))
                            ELSE keyValues, 1)
       IN /\ heap' = [heap EXCEPT ![p].args = b.slice]
          /\ arrays' = b.arrays
    /\ UNCHANGED <<loggers, levels, origin, discards, mu, logVars, pc, call, last,
                   returned>>

With(t, p, keyValues) ==
    /\ pc[t] = "idle"
    /\ IF Len(keyValues) = 0
       THEN /\ last' = [NoRet EXCEPT !.op = "With", !.scope = LoggerScope(p)]
            /\ UNCHANGED <<regVars, logVars, pc, call, returned>>
       ELSE LET kvs == IF Len(keyValues) % 2 # 0
                       THEN Append(keyValues, Str("(MISSING)"))
                       ELSE keyValues
            IN Derive(t, p, withPairs(clone(heap[p]), kvs), "With")

Context(t, p, ctx) ==
    /\ pc[t] = "idle"
    /\ LET c == clone(heap[p])
       IN Derive(t, p, [c EXCEPT !.logger.ctx = ctx], "Context")

Metric(t, p, m) ==
    /\ pc[t] = "idle"
    /\ LET c == clone(heap[p])
       IN Derive(t, p, [c EXCEPT !.logger.metric = m], "Metric")

\* newLogger.writer = w on a clone.
Writer(t, p, w) ==
    /\ pc[t] = "idle"
    /\ LET c == clone(heap[p])
       IN Derive(t, p, [c EXCEPT !.logger.writer = w], "Writer")

(***************************************************************************)
(* With in two steps, for callers that run at the same time: the clone,    *)
(* and then the loop that appends to the clone's args and the return.      *)
(* Between the two the new object is known to its caller only.             *)
(***************************************************************************)
WithClone(t, p, keyValues) ==
    /\ pc[t] = "idle"
    /\ IF Len(keyValues) = 0
       THEN /\ last' = [NoRet EXCEPT !.op = "With", !.scope = LoggerScope(p)]
            /\ UNCHANGED <<regVars, logVars, pc, call, returned>>
       ELSE LET c == clone(heap[p])
            IN /\ heap' = Append(heap, c.logger)
               /\ levels' = c.levels
               /\ arrays' = c.arrays
               /\ origin' = Append(origin, origin[p])
               /\ pc' = [pc EXCEPT ![t] = "With.append"]
               /\ call' = [call EXCEPT ![t] =
                             [NoCall EXCEPT !.l = p, !.new = Len(heap) + 1,
                                            !.keyValues =
                                               IF Len(keyValues) % 2 # 0
                                               THEN Append(keyValues, Str("(MISSING)"))
                                               ELSE keyValues]]
               /\ UNCHANGED <<loggers, discards, mu, logVars, last, returned>>

WithAppend(t) ==
    /\ pc[t] = "With.append"
    /\ LET q == call[t].new
           b == appendPairs([arrays |-> arrays, slice |-> heap[q].args],
                            call[t].keyValues, 1)
       IN /\ heap' = [heap EXCEPT ![q].args = b.slice]
          /\ arrays' = b.arrays
          /\ last' = [NoRet EXCEPT !.op = "With", !.scope = LoggerScope(q)]
    /\ pc' = [pc EXCEPT ![t] = "idle"]
    /\ call' = [call EXCEPT ![t] = NoCall]
    /\ UNCHANGED <<loggers, levels, origin, discards, mu, logVars, returned>>

(***************************************************************************)
(* Formatters.  A line is the sequence of the pieces written to the        *)
(* buffer; a piece is <<verb, text>>: "lit" for the format's own text.     *)
(***************************************************************************)
\* telemetry.KeyValuesFromContext
KeyValuesFromContext(ctx) == ctx.keyValues

Lit(s) == <<"lit", s>>

\* The timestamp l.now() formats to.
Now == <<"time", "2021/12/09 17:37:46">>

\* writeKeyValue: i and n count from 0 as in the code.
writeKeyValue(args, i, n) ==
    <<Lit(args[i + 1].v), Lit("=")>> \o
    (IF i + 1 >= n THEN <<Lit("\"(MISSING)\"")>>
     ELSE IF IsString(args[i + 2]) THEN << <<"%q", args[i + 2].v>> >>
     ELSE << <<"%v", args[i + 2].v>> >>)

\* writeArgs that steps over a key that is not a string by one element.
RECURSIVE writeArgsFromByOne(_, _)
writeArgsFromByOne(args, i) ==
    IF i >= Len(args) THEN <<>>
    ELSE IF IsString(args[i + 1])
         THEN <<Lit(" ")>> \o writeKeyValue(args, i, Len(args))
              \o writeArgsFromByOne(args, i + 2)
         ELSE writeArgsFromByOne(args, i + 1)

RECURSIVE writeArgsFrom(_, _)
writeArgsFrom(args, i) ==
    IF i >= Len(args) THEN <<>>
    ELSE (IF IsString(args[i + 1])
          THEN <<Lit(" ")>> \o writeKeyValue(args, i, Len(args))
          ELSE <<>>) \o writeArgsFrom(args, i + 2)

writeArgs(args) == writeArgsFrom(args, 0)

\* structuredLog that writes the logger's pairs before the context's.
structuredLogArgsFirst(l, level, msg, err, keyValues) ==
    <<Lit("time=\""), Now, Lit("\" level="), <<"%s", levelToString[level]>>,
      Lit(" scope="), <<"%q", l.name>>, Lit(" msg="), <<"%q", msg>> >>
    \o writeArgs(Args(l))
    \o writeArgs(KeyValuesFromContext(l.ctx))
    \o writeArgs(keyValues)
    \o (IF err # NoError THEN <<Lit(" error=\""), <<"%s", err>>, Lit("\"")>>
        ELSE <<>>)
    \o <<Lit("\n")>>

\* structuredLog that writes the error before the call's pairs.
structuredLogErrorFirst(l, level, msg, err, keyValues) ==
    <<Lit("time=\""), Now, Lit("\" level="), <<"%s", levelToString[level]>>,
      Lit(" scope="), <<"%q", l.name>>, Lit(" msg="), <<"%q", msg>> >>
    \o writeArgs(KeyValuesFromContext(l.ctx))
    \o writeArgs(Args(l))
    \o (IF err # NoError THEN <<Lit(" error=\""), <<"%s", err>>, Lit("\"")>>
        ELSE <<>>)
    \o writeArgs(keyValues)
    \o <<Lit("\n")>>

structuredLog(l, level, msg, err, keyValues) ==
    <<Lit("time=\""), Now, Lit("\" level="), <<"%s", levelToString[level]>>,
      Lit(" scope="), <<"%q", l.name>>, Lit(" msg="), <<"%q", msg>> >>
    \o writeArgs(KeyValuesFromContext(l.ctx))
    \o writeArgs(Args(l))
    \o writeArgs(keyValues)
    \o (IF err # NoError THEN <<Lit(" error=\""), <<"%s", err>>, Lit("\"")>>
        ELSE <<>>)
    \o <<Lit("\n")>>

\* fmt.Sprintf(msg, keyValues...): the format and the operands it is given.
Sprintf(msg, operands) ==
    <<"Sprintf", msg>> \o [i \in 1..Len(operands) |-> operands[i].v]
\* unstructuredLog that also lists the pairs of the call in the bracket.
unstructuredLogCallPairs(l, level, msg, err, keyValues) ==
    LET fromCtx == KeyValuesFromContext(l.ctx)
        nCtx == Len(fromCtx)
        nArgs == Len(Args(l))
    IN <<Now, Lit("  "), <<"%-5v", levelToString[level]>>, Lit("\t"),
         <<"%-10s", l.name>>, Lit("\t")>>
       \o <<Sprintf(msg, IF err # NoError THEN Append(keyValues, Str(err))
                         ELSE keyValues)>>
       \o (IF nCtx > 0
           THEN <<Lit(" [")>> \o writeKeyValue(fromCtx, 0, nCtx)
                \o writeArgs(SubSeq(fromCtx, 3, nCtx))
           ELSE <<>>)
       \o (IF nArgs > 0
           THEN IF nCtx > 0 THEN writeArgs(Args(l))
                ELSE <<Lit(" [")>> \o writeKeyValue(Args(l), 0, nArgs)
                     \o writeArgs(SubSeq(Args(l), 3, nArgs))
           ELSE <<>>)
       \o (IF nCtx > 0 \/ nArgs > 0
           THEN writeArgs(keyValues) \o <<Lit("]")>> ELSE <<>>)
       \o <<Lit("\n")>>

\* unstructuredLog with the format of a logger that has no name.
unstructuredLogNoName(l, level, msg, err, keyValues) ==
    LET fromCtx == KeyValuesFromContext(l.ctx)
        nCtx == Len(fromCtx)
        nArgs == Len(Args(l))
    IN <<Now, Lit("  "), <<"%-5v", levelToString[level]>>, Lit("  ")>>
       \o <<Sprintf(msg, IF err # NoError THEN Append(keyValues, Str(err))
                         ELSE keyValues)>>
       \o (IF nCtx > 0
           THEN <<Lit(" [")>> \o writeKeyValue(fromCtx, 0, nCtx)
                \o writeArgs(SubSeq(fromCtx, 3, nCtx))
           ELSE <<>>)
       \o (IF nArgs > 0
           THEN IF nCtx > 0 THEN writeArgs(Args(l))
                ELSE <<Lit(" [")>> \o writeKeyValue(Args(l), 0, nArgs)
                     \o writeArgs(SubSeq(Args(l), 3, nArgs))
           ELSE <<>>)
       \o (IF nCtx > 0 \/ nArgs > 0 THEN <<Lit("]")>> ELSE <<>>)
       \o <<Lit("\n")>>

unstructuredLog(l, level, msg, err, keyValues) ==
    LET fromCtx == KeyValuesFromContext(l.ctx)
        nCtx == Len(fromCtx)
        nArgs == Len(Args(l))
    IN <<Now, Lit("  "), <<"%-5v", levelToString[level]>>, Lit("\t"),
         <<"%-10s", l.name>>, Lit("\t")>>
       \o <<Sprintf(msg, IF err # NoError THEN Append(keyValues, Str(err))
                         ELSE keyValues)>>
       \o (IF nCtx > 0
           THEN <<Lit(" [")>> \o writeKeyValue(fromCtx, 0, nCtx)
                \o writeArgs(SubSeq(fromCtx, 3, nCtx))
           ELSE <<>>)
       \o (IF nArgs > 0
           THEN IF nCtx > 0 THEN writeArgs(Args(l))
                ELSE <<Lit(" [")>> \o writeKeyValue(Args(l), 0, nArgs)
                     \o writeArgs(SubSeq(Args(l), 3, nArgs))
           ELSE <<>>)
       \o (IF nCtx > 0 \/ nArgs > 0 THEN <<Lit("]")>> ELSE <<>>)
       \o <<Lit("\n")>>

\* k := args[i].(string) panics when args[i] is not a string.
writeKeyValuePanics(args, i, n) == ~IsString(args[i + 1])

\* args[2:] panics when len(args) < 2.
slicePanics(args) == Len(args) < 2

\* unstructuredLog calls writeKeyValue on element 0 and slices from 2 without
\* a test, for the context's sequence and else for l.args.
unstructuredLogPanics(l) ==
    LET fromCtx == KeyValuesFromContext(l.ctx)
        nCtx == Len(fromCtx)
        nArgs == Len(Args(l))
    IN \/ nCtx > 0 /\ (writeKeyValuePanics(fromCtx, 0, nCtx) \/ slicePanics(fromCtx))
       \/ nCtx = 0 /\ nArgs > 0
            /\ (writeKeyValuePanics(Args(l), 0, nArgs) \/ slicePanics(Args(l)))

\* Whether l.emit panics; structuredLog tests every key before it converts.
emitPanics(l) == l.emit = "unstructuredLog" /\ unstructuredLogPanics(l)

\* l.emit(l, level, msg, err, keyValues...): the line written to l.writer.
emit(l, level, msg, err, keyValues) ==
    IF l.emit = "structuredLog"
    THEN structuredLog(l, level, msg, err, keyValues)
    ELSE unstructuredLog(l, level, msg, err, keyValues)

(***************************************************************************)
(* Logger: emission.  Info and Error first record the metric, then load    *)
(* the level; Debug only loads the level.                                  *)
(***************************************************************************)
EmitArgs(p, msg, err, keyValues) ==
    [NoCall EXCEPT !.l = p, !.msg = msg, !.err = err, !.keyValues = keyValues]

\* A call that records only once the line is let through: nothing at entry.
recordNothing(l) == recorded

\* l.metric.RecordContext(l.ctx, 1), if a metric is attached.
recordMetric(l) ==
    IF l.metric # "nil"
    THEN Append(recorded, [metric |-> l.metric, ctx |-> l.ctx, value |-> 1])
    ELSE recorded

\* Gate that puts the line before the lines already written.
GateWritesFirst(t, level) ==
    /\ IF enabled(heap[call[t].l], level) /\ emitPanics(heap[call[t].l])
       THEN /\ pc' = [pc EXCEPT ![t] = "panic"]
            /\ UNCHANGED <<sink, call>>
       ELSE /\ sink' = IF enabled(heap[call[t].l], level)
                       THEN <<emit(heap[call[t].l], level, call[t].msg,
                                   call[t].err, call[t].keyValues)>> \o sink
                       ELSE sink
            /\ pc' = [pc EXCEPT ![t] = "idle"]
            /\ call' = [call EXCEPT ![t] = NoCall]
    /\ UNCHANGED <<regVars, recorded, last, returned>>

\* if !l.enabled(level) { return }; l.emit(l, level, msg, err, keyValues...)
\* A panic in emit unwinds into the caller: the call does not return.
Gate(t, level) ==
    /\ IF enabled(heap[call[t].l], level) /\ emitPanics(heap[call[t].l])
       THEN /\ pc' = [pc EXCEPT ![t] = "panic"]
            /\ UNCHANGED <<sink, call>>
       ELSE /\ sink' = IF enabled(heap[call[t].l], level)
                       THEN Append(sink, emit(heap[call[t].l], level, call[t].msg,
                                              call[t].err, call[t].keyValues))
                       ELSE sink
            /\ pc' = [pc EXCEPT ![t] = "idle"]
            /\ call' = [call EXCEPT ![t] = NoCall]
    /\ UNCHANGED <<regVars, recorded, last, returned>>

Enter(t, p, label, msg, err, keyValues) ==
    /\ pc[t] = "idle"
    /\ pc' = [pc EXCEPT ![t] = label]
    /\ call' = [call EXCEPT ![t] = EmitArgs(p, msg, err, keyValues)]
    /\ UNCHANGED <<regVars, sink, last, returned>>

Debug(t, p, msg, keyValues) ==
    /\ Enter(t, p, "Debug.enabled", msg, NoError, keyValues)
    /\ recorded' = recorded

DebugEnabled(t) ==
    /\ pc[t] = "Debug.enabled"
    /\ Gate(t, LevelDebug)

Info(t, p, msg, keyValues) ==
    /\ Enter(t, p, "Info.enabled", msg, NoError, keyValues)
    /\ recorded' = recordMetric(heap[p])

InfoEnabled(t) ==
    /\ pc[t] = "Info.enabled"
    /\ Gate(t, LevelInfo)

Error(t, p, msg, err, keyValues) ==
    /\ Enter(t, p, "Error.enabled", msg, err, keyValues)
    /\ recorded' = recordMetric(heap[p])

ErrorEnabled(t) ==
    /\ pc[t] = "Error.enabled"
    /\ Gate(t, LevelError)

(***************************************************************************)
(* Discard: a logger that writes nothing and still records the metric.     *)
(* A *Discard has a context and a metric and no level, writer or args.     *)
(***************************************************************************)
DiscardScope(d) == [kind |-> "Discard", ptr |-> d]

\* &Discard{ctx: ctx, metric: metric} at the next free address; the call
\* returns it.
allocDiscard(op, ctx, metric) ==
    /\ discards' = Append(discards, [ctx |-> ctx, metric |-> metric])
    /\ last' = [NoRet EXCEPT !.op = op, !.scope = DiscardScope(Len(discards) + 1)]
    /\ UNCHANGED <<loggers, heap, levels, origin, arrays, mu, logVars, pc, call, returned>>

\* NewDiscard(): &Discard{ctx: context.Background()}
NewDiscardCall(t) ==
    /\ pc[t] = "idle"
    /\ allocDiscard("NewDiscard", Background, "nil")

\* if d.metric != nil { d.metric.RecordContext(d.ctx, 1) }
discardRecord(d) ==
    IF discards[d].metric # "nil"
    THEN Append(recorded, [metric |-> discards[d].metric,
                           ctx |-> discards[d].ctx, value |-> 1])
    ELSE recorded

DiscardInfo(t, d, msg, keyValues) ==
    /\ pc[t] = "idle"
    /\ recorded' = discardRecord(d)
    /\ last' = [NoRet EXCEPT !.op = "Discard.Info"]
    /\ UNCHANGED <<regVars, sink, pc, call, returned>>

DiscardError(t, d, msg, err, keyValues) ==
    /\ pc[t] = "idle"
    /\ recorded' = discardRecord(d)
    /\ last' = [NoRet EXCEPT !.op = "Discard.Error"]
    /\ UNCHANGED <<regVars, sink, pc, call, returned>>

\* func (d *Discard) Debug(string, ...interface{}) {}
DiscardDebug(t, d, msg, keyValues) ==
    /\ pc[t] = "idle"
    /\ last' = [NoRet EXCEPT !.op = "Discard.Debug"]
    /\ UNCHANGED <<regVars, logVars, pc, call, returned>>

\* return d
DiscardWith(t, d, keyValues) ==
    /\ pc[t] = "idle"
    /\ last' = [NoRet EXCEPT !.op = "Discard.With", !.scope = DiscardScope(d)]
    /\ UNCHANGED <<regVars, logVars, pc, call, returned>>

\* return &Discard{ctx: ctx, metric: d.metric}
DiscardContext(t, d, ctx) ==
    /\ pc[t] = "idle"
    /\ allocDiscard("Discard.Context", ctx, discards[d].metric)

\* Metric that sets the field of the receiver and returns the receiver.
DiscardMetricInPlace(t, d, m) ==
    /\ pc[t] = "idle"
    /\ discards' = [discards EXCEPT ![d].metric = m]
    /\ last' = [NoRet EXCEPT !.op = "Discard.Metric", !.scope = DiscardScope(d)]
    /\ UNCHANGED <<loggers, heap, levels, origin, arrays, mu, logVars, pc, call, returned>>

\* return &Discard{ctx: d.ctx, metric: m}
DiscardMetric(t, d, m) ==
    /\ pc[t] = "idle"
    /\ allocDiscard("Discard.Metric", discards[d].ctx, m)

(***************************************************************************)
(* One caller registers a logger and derives values from it.               *)
(***************************************************************************)
RegisterStep(t) ==
    \/ \E n \in LoggerNames, d \in ConcurrentDescriptions : Register(t, n, d)
    \/ RegisterNewLogger(t)
    \/ \E n \in LoggerNames, d \in ConcurrentDescriptions :
          RegisterUnstructured(t, n, d)
    \/ RegisterUnstructuredNewUnstructured(t)

DeriveStep(t, W) ==
    \/ \E p \in DOMAIN heap, kvs \in W : With(t, p, kvs)
    \/ \E p \in DOMAIN heap, ctx \in Contexts : Context(t, p, ctx)
    \/ \E p \in DOMAIN heap, m \in Metrics \cup {"nil"} : Metric(t, p, m)

NextDerive ==
    \/ RegisterStep(MainThread)
    \/ Len(heap) < MaxObjs /\ DeriveStep(MainThread, WithKeyValues)
    \/ \E p \in DOMAIN heap, lv \in Levels : SetLevel(MainThread, p, lv)

SpecDerive == Init /\ [][NextDerive]_vars

(***************************************************************************)
(* One caller registers a logger and calls With, on it and on what With    *)
(* and Context return, with every kind of argument list.                   *)
(***************************************************************************)
NextWith ==
    \/ RegisterStep(MainThread)
    \/ /\ Len(heap) < MaxObjs
       /\ \/ \E p \in DOMAIN heap, kvs \in DeriveWithKeyValues :
                With(MainThread, p, kvs)
          \/ \E p \in DOMAIN heap, ctx \in Contexts : Context(MainThread, p, ctx)

SpecWith == Init /\ [][NextWith]_vars

(***************************************************************************)
(* One caller registers a logger, derives values from it and logs.         *)
(***************************************************************************)
EmitStep(t) ==
    \/ \E p \in DOMAIN heap, msg \in Messages, kvs \in CallKeyValues :
          Debug(t, p, msg, kvs)
    \/ \E p \in DOMAIN heap, msg \in Messages, kvs \in CallKeyValues :
          Info(t, p, msg, kvs)
    \/ \E p \in DOMAIN heap, msg \in Messages, kvs \in CallKeyValues,
          err \in Errors : Error(t, p, msg, err, kvs)

GateStep(t) ==
    \/ DebugEnabled(t)
    \/ InfoEnabled(t)
    \/ ErrorEnabled(t)

NextLogger ==
    \/ RegisterStep(MainThread)
    \/ Len(heap) < MaxEmitters /\ DeriveStep(MainThread, WithKeyValues)
    \/ \E p \in DOMAIN heap, lv \in Levels : SetLevel(MainThread, p, lv)
    \/ Len(sink) < MaxLines /\ Len(recorded) < MaxLines /\ EmitStep(MainThread)
    \/ GateStep(MainThread)

SpecLogger == Init /\ [][NextLogger]_vars

(***************************************************************************)
(* The formatters applied once to each input: a registered logger, a value *)
(* derived from it by Context(c) and With(w...), a level, and one call.    *)
(***************************************************************************)
InitFormat ==
    \E e \in {"structuredLog", "unstructuredLog"}, c \in FormatContexts,
       w \in FormatWithKeyValues, lv \in Levels :
       LET root == IF e = "structuredLog" THEN newLogger("a", "d1", 1)
                   ELSE newUnstructured("a", "d1", 1)
           kvs == IF Len(w) % 2 # 0 THEN Append(w, Str("(MISSING)")) ELSE w
           b == appendPairs([arrays |-> << <<>> >>,
                             slice |-> [arr |-> 1, len |-> 0, cap |-> 0]],
                            kvs, 1)
           derived == [root EXCEPT !.ctx = c, !.args = b.slice]
       IN /\ loggers = [n \in {"a"} |-> LoggerScope(1)]
          /\ heap = <<root, derived>>
          /\ levels = <<lv>>
          /\ origin = <<1, 1>>
          /\ sink = <<>>
          /\ recorded = <<>>
          /\ pc = [t \in Threads |-> "idle"]
          /\ call = [t \in Threads |-> NoCall]
          /\ last = NoRet
          /\ returned = [n \in Names |-> {}]
          /\ discards = <<>>
          /\ arrays = b.arrays
          /\ mu = RWMutex

FormatStep(t) ==
    \/ \E p \in DOMAIN heap, msg \in FormatMessages, kvs \in FormatCallKeyValues \cup PrintfOperands :
          Debug(t, p, msg, kvs)
    \/ \E p \in DOMAIN heap, msg \in FormatMessages, kvs \in FormatCallKeyValues \cup PrintfOperands :
          Info(t, p, msg, kvs)
    \/ \E p \in DOMAIN heap, msg \in FormatMessages,
          kvs \in FormatCallKeyValues \cup PrintfOperands,
          err \in Errors \cup {NoError} : Error(t, p, msg, err, kvs)

NextFormat ==
    \/ sink = <<>> /\ FormatStep(MainThread)
    \/ GateStep(MainThread)

SpecFormat == InitFormat /\ [][NextFormat]_vars

(***************************************************************************)
(* One caller uses the registry and Discard loggers; the calls on a        *)
(* Discard are those of TestDiscard.                                       *)
(***************************************************************************)
MaxDiscards == 3

MaxRecords == 2

DiscardCallKeyValues == {<<Str("where"), Str("there")>>}

DiscardWithKeyValues == {<<>>, <<Str("lvl"), Str("info")>>, <<Str("missing")>>}

DiscardEmitStep(t) ==
    \/ \E d \in DOMAIN discards, msg \in Messages, kvs \in DiscardCallKeyValues :
          DiscardInfo(t, d, msg, kvs)
    \/ \E d \in DOMAIN discards, msg \in Messages, kvs \in DiscardCallKeyValues,
          err \in Errors : DiscardError(t, d, msg, err, kvs)
    \/ \E d \in DOMAIN discards, msg \in Messages, kvs \in DiscardCallKeyValues :
          DiscardDebug(t, d, msg, kvs)

DiscardDeriveStep(t) ==
    \/ NewDiscardCall(t)
    \/ \E d \in DOMAIN discards, ctx \in Contexts : DiscardContext(t, d, ctx)
    \/ \E d \in DOMAIN discards, m \in Metrics \cup {"nil"} :
          DiscardMetric(t, d, m)

NextDiscard ==
    \/ Len(heap) < MaxEmitters /\ RegisterStep(MainThread)
    \/ \E n \in Names : GetLogger(MainThread, n)
    \/ Loggers(MainThread)
    \/ Len(discards) < MaxDiscards /\ DiscardDeriveStep(MainThread)
    \/ \E d \in DOMAIN discards, kvs \in DiscardWithKeyValues :
          DiscardWith(MainThread, d, kvs)
    \/ Len(recorded) < MaxRecords /\ DiscardEmitStep(MainThread)

SpecDiscard == Init /\ [][NextDiscard]_vars

(***************************************************************************)
(* Level.String and AsLevel applied to levels and strings.  Each thread    *)
(* keeps in call the conversion it made last and what that returned.       *)
(***************************************************************************)
\* The Level values String is called on: the four levels and one more int32.
LevelInputs == Levels \cup {LevelDebug + 1}

\* The strings AsLevel is called on: the four of TestAsLevel, "invalid", and
\* strings that differ from a token by case, by a space or by being empty.
LevelStrings ==
    {"none", "error", "info", "debug", "invalid", "INFO", "Debug", "info ",
     "warn", ""}

StringCall(t, l) ==
    /\ call' = [call EXCEPT ![t] = [op |-> "String", arg |-> l, str |-> String(l)]]
    /\ UNCHANGED <<regVars, logVars, pc, last, returned>>

AsLevelCall(t, s) ==
    /\ call' = [call EXCEPT ![t] = [op |-> "AsLevel", arg |-> s,
                                    level |-> AsLevel(s).level,
                                    ok |-> AsLevel(s).ok]]
    /\ UNCHANGED <<regVars, logVars, pc, last, returned>>

\* AsLevel(l.String()) for the l of the String call the thread made last.
AsLevelOfString(t) ==
    /\ call[t].op = "String"
    /\ call' = [call EXCEPT ![t] = [op |-> "AsLevel(String)", arg |-> call[t].arg,
                                    level |-> AsLevel(call[t].str).level,
                                    ok |-> AsLevel(call[t].str).ok]]
    /\ UNCHANGED <<regVars, logVars, pc, last, returned>>

\* No conversion made yet, and nothing registered.
InitLevel ==
    /\ loggers = <<>>
    /\ heap = <<>>
    /\ levels = <<>>
    /\ origin = <<>>
    /\ sink = <<>>
    /\ recorded = <<>>
    /\ pc = [t \in Threads |-> "idle"]
    /\ call = [t \in Threads |-> [op |-> "", arg |-> ""]]
    /\ last = NoRet
    /\ returned = [n \in Names |-> {}]
    /\ discards = <<>>
    /\ arrays = <<>>
    /\ mu = RWMutex

NextLevel ==
    \E t \in Threads :
       \/ \E l \in LevelInputs : StringCall(t, l)
       \/ \E s \in LevelStrings : AsLevelCall(t, s)
       \/ AsLevelOfString(t)

SpecLevel == InitLevel /\ [][NextLevel]_vars

(***************************************************************************)
(* One caller makes one call after the other on the values of a logger,    *)
(* with and without a metric, and sets the level between calls.            *)
(***************************************************************************)
MaxCalls == 2

OrderEmitStep(t) ==
    \/ \E p \in DOMAIN heap, msg \in FormatMessages, kvs \in PrintfOperands :
          Debug(t, p, msg, kvs)
    \/ \E p \in DOMAIN heap, msg \in FormatMessages, kvs \in PrintfOperands :
          Info(t, p, msg, kvs)
    \/ \E p \in DOMAIN heap, msg \in FormatMessages, kvs \in PrintfOperands,
          err \in Errors : Error(t, p, msg, err, kvs)

NextOrder ==
    \/ RegisterStep(MainThread)
    \/ /\ Len(heap) < MaxEmitters
       /\ \E p \in DOMAIN heap, m \in Metrics : Metric(MainThread, p, m)
    \/ \E p \in DOMAIN heap, lv \in Levels : SetLevel(MainThread, p, lv)
    \/ /\ Len(sink) < MaxCalls /\ Len(recorded) <= MaxCalls
       /\ OrderEmitStep(MainThread)
    \/ GateStep(MainThread)

SpecOrder == Init /\ [][NextOrder]_vars

(***************************************************************************)
(* Callers derive values with With at the same time, from the registered   *)
(* logger and from the values derived so far.                              *)
(***************************************************************************)
MaxAliasObjs == 4

\* With arguments: three pairs, after which the args slice has room to
\* spare; one pair; a key without value.
AliasKeyValues ==
    {<<Str("k1"), Str("1"), Str("k2"), Str("2"), Str("k3"), Str("3")>>,
     <<Str("x"), Str("1")>>, <<Str("y")>>}

\* The values their callers have: every object but those a With call is
\* still building.
Published == {p \in DOMAIN heap :
                 \A t \in Threads : pc[t] = "With.append" => call[t].new # p}

NextAlias ==
    \/ Len(heap) < 1 /\ RegisterStep(MainThread)
    \/ /\ Len(heap) < MaxAliasObjs
       /\ \E t \in Threads, p \in Published, kvs \in AliasKeyValues :
             WithClone(t, p, kvs)
    \/ \E t \in Threads : WithAppend(t)

SpecAlias == Init /\ [][NextAlias]_vars

(***************************************************************************)
(* One caller derives values in chains, with With, Context, Metric and     *)
(* Writer, from a logger of either kind, and logs on them.                 *)
(***************************************************************************)
Writers == {"buffer"}

ChainStep(t) ==
    \/ DeriveStep(t, WithKeyValues)
    \/ \E p \in DOMAIN heap, w \in Writers : Writer(t, p, w)

NextChain ==
    \/ RegisterStep(MainThread)
    \/ Len(heap) < MaxObjs /\ ChainStep(MainThread)
    \/ Len(sink) < MaxLines /\ Len(recorded) < MaxLines /\ EmitStep(MainThread)
    \/ GateStep(MainThread)

SpecChain == Init /\ [][NextChain]_vars

(***************************************************************************)
(* The registry calls, one step per lock operation.  Every caller starts   *)
(* registry calls and, between them, uses the loggers it can have.         *)
(***************************************************************************)
\* The calls that start with reg.GetLogger(name).
Lookups == {"Register", "GetLogger"}

\* Where a caller is: before r.mu.RLock() of registry.GetLogger, ...
AtRLock ==
    [Register |-> "Register.GetLogger.RLock",
     GetLogger |-> "GetLogger.GetLogger.RLock"]

\* ... and before its r.mu.RUnlock().
AtRUnlock ==
    [Register |-> "Register.GetLogger.RUnlock",
     GetLogger |-> "GetLogger.GetLogger.RUnlock"]

\* Where a caller is in a call that has started and has not returned.
InRegistry ==
    {AtRLock[op] : op \in Lookups} \cup {AtRUnlock[op] : op \in Lookups}
    \cup {"Register.Register.Lock", "Register.Register.Locked",
          "Register.Register.Unlock", "Loggers.RLock", "Loggers.RUnlock"}

\* Register or GetLogger is called.
Lookup(t, op, name, description) ==
    /\ pc[t] = "idle"
    /\ pc' = [pc EXCEPT ![t] = AtRLock[op]]
    /\ call' = [call EXCEPT ![t] = RegisterArgs(name, description)]
    /\ UNCHANGED <<regVars, logVars, last, returned>>

\* registry.GetLogger: r.mu.RLock()
registryGetLoggerRLock(t, op) ==
    /\ pc[t] = AtRLock[op]
    /\ CanRLock(mu, t)
    /\ mu' = RLock(mu, t)
    /\ pc' = [pc EXCEPT ![t] = AtRUnlock[op]]
    /\ UNCHANGED <<loggers, heap, levels, origin, discards, arrays, logVars,
                   call, last, returned>>

\* What follows registry.GetLogger in the caller: GetLogger returns what was
\* found, Register returns it if it is there and else goes on with
\* l := newLogger(name, description); reg.Register(l).
Looked(t, op) ==
    LET r == registryGetLogger(call[t].name) IN
    IF op = "Register" /\ ~r.ok
    THEN LET lvl == Len(levels) + 1
             p == Len(heap) + 1
         IN /\ levels' = Append(levels, LevelInfo)
            /\ heap' = Append(heap, newLogger(call[t].name,
                                              call[t].description, lvl))
            /\ origin' = Append(origin, p)
            /\ call' = [call EXCEPT ![t].new = p]
            /\ pc' = [pc EXCEPT ![t] = "Register.Register.Lock"]
            /\ UNCHANGED <<last, returned>>
    ELSE /\ Return(t, [NoRet EXCEPT !.op = op, !.name = call[t].name,
                          !.description = call[t].description,
                          !.scope = r.logger, !.ok = r.ok])
         /\ returned' = IF op = "Register"
                        THEN Handed(call[t].name, r.logger, heap)
                        ELSE returned
         /\ UNCHANGED <<heap, levels, origin>>

\* registry.GetLogger that returns with the read lock.
registryGetLoggerKeepsRLock(t, op) ==
    /\ pc[t] = AtRUnlock[op]
    /\ Looked(t, op)
    /\ UNCHANGED <<loggers, discards, arrays, mu, logVars>>

\* registry.GetLogger: logger, ok := r.loggers[name]; r.mu.RUnlock()
registryGetLoggerRUnlock(t, op) ==
    /\ pc[t] = AtRUnlock[op]
    /\ mu' = RUnlock(mu, t)
    /\ Looked(t, op)
    /\ UNCHANGED <<loggers, discards, arrays, logVars>>

\* registry.Register: r.mu.Lock(), until the readers are turned away.
registryRegisterLock(t) ==
    /\ pc[t] = "Register.Register.Lock"
    /\ CanLock(mu, t)
    /\ mu' = Lock(mu, t)
    /\ pc' = [pc EXCEPT ![t] = "Register.Register.Locked"]
    /\ UNCHANGED <<loggers, heap, levels, origin, discards, arrays, logVars,
                   call, last, returned>>

\* registry.Register: r.mu.Lock() returns.
registryRegisterLocked(t) ==
    /\ pc[t] = "Register.Register.Locked"
    /\ CanLocked(mu, t)
    /\ mu' = Locked(mu, t)
    /\ pc' = [pc EXCEPT ![t] = "Register.Register.Unlock"]
    /\ UNCHANGED <<loggers, heap, levels, origin, discards, arrays, logVars,
                   call, last, returned>>

\* registry.Register: r.loggers[logger.Name()] = logger, the deferred
\* r.mu.Unlock(), and Register returns l.
registryRegisterUnlock(t) ==
    /\ pc[t] = "Register.Register.Unlock"
    /\ LET p == call[t].new IN
       /\ loggers' = registryRegister(heap[p].name, LoggerScope(p))
       /\ Return(t, [NoRet EXCEPT !.op = "Register", !.name = call[t].name,
                        !.description = call[t].description,
                        !.scope = LoggerScope(p), !.ok = TRUE,
                        !.created = TRUE])
       /\ returned' = Handed(call[t].name, LoggerScope(p), heap)
    /\ mu' = Unlock(mu, t)
    /\ UNCHANGED <<heap, levels, origin, discards, arrays, logVars>>

\* Loggers() is called.
LoggersCall(t) ==
    /\ pc[t] = "idle"
    /\ pc' = [pc EXCEPT ![t] = "Loggers.RLock"]
    /\ UNCHANGED <<regVars, logVars, call, last, returned>>

\* registry.Loggers: r.mu.RLock()
registryLoggersRLock(t) ==
    /\ pc[t] = "Loggers.RLock"
    /\ CanRLock(mu, t)
    /\ mu' = RLock(mu, t)
    /\ pc' = [pc EXCEPT ![t] = "Loggers.RUnlock"]
    /\ UNCHANGED <<loggers, heap, levels, origin, discards, arrays, logVars,
                   call, last, returned>>

\* registry.Loggers: the range over the map, the deferred r.mu.RUnlock(),
\* and the return of the slice.
registryLoggersRUnlock(t) ==
    /\ pc[t] = "Loggers.RUnlock"
    /\ mu' = RUnlock(mu, t)
    /\ \E s \in registryLoggers :
          Return(t, [NoRet EXCEPT !.op = "Loggers", !.list = s])
    /\ UNCHANGED <<loggers, heap, levels, origin, discards, arrays, logVars,
                   returned>>

\* The loggers a caller can have: those in the registry.
Registered == {loggers[n].ptr : n \in DOMAIN loggers}

\* A caller uses a logger: SetLevel, Info.
Use(t) ==
    \/ \E p \in Registered : SetLevel(t, p, LevelDebug)
    \/ /\ Len(sink) < MaxLines
       /\ \E p \in Registered, msg \in Messages : Info(t, p, msg, <<>>)
    \/ InfoEnabled(t)

\* A step of a registry call that has started.
Proceed(t) ==
    \/ \E op \in Lookups : registryGetLoggerRLock(t, op)
    \/ \E op \in Lookups : registryGetLoggerRUnlock(t, op)
    \/ registryRegisterLock(t)
    \/ registryRegisterLocked(t)
    \/ registryRegisterUnlock(t)
    \/ registryLoggersRLock(t)
    \/ registryLoggersRUnlock(t)

NextLock ==
    \/ \E t \in Threads, op \in Lookups, n \in LoggerNames,
          d \in ConcurrentDescriptions : Lookup(t, op, n, d)
    \/ \E t \in Threads : LoggersCall(t)
    \/ \E t \in Threads : Proceed(t)
    \/ Use(MainThread)

\* The scheduler lets every goroutine that can take a step take one.  The
\* lookups that miss, and so the writers, are finitely many, so a goroutine
\* waiting in RLock or Lock can in the end always go on.
FairLock == \A t \in Threads : WF_vars(Proceed(t))

SpecLock == Init /\ [][NextLock]_vars /\ FairLock

(***************************************************************************)
(* A writer sets the level while callers log.  The writer registers the    *)
(* logger and attaches the metric; every thread calls Debug, Info and      *)
(* Error on the values there are.                                          *)
(***************************************************************************)
\* The levels the writer passes to SetLevel.
SetLevelInputs == {LevelNone, LevelDebug}

Emitters == Threads

NextConcurrent ==
    \/ RegisterStep(MainThread)
    \/ /\ Len(heap) < MaxEmitters
       /\ \E p \in DOMAIN heap, m \in Metrics : Metric(MainThread, p, m)
    \/ \E p \in DOMAIN heap, lv \in SetLevelInputs : SetLevel(MainThread, p, lv)
    \/ /\ Len(sink) < MaxLines /\ Len(recorded) < MaxLines
       /\ \E t \in Emitters : EmitStep(t)
    \/ \E t \in Emitters : GateStep(t)

SpecConcurrent == Init /\ [][NextConcurrent]_vars

\* The args of the logger value l as the state after the step has them.
ArgsNext(l) == sliceValues(arrays', l.args)

(***************************************************************************)
(* Properties of the registry.                                             *)
(***************************************************************************)
AllReturned == \A t \in Threads : pc[t] = "idle"

Instances(n) == {o.scope : o \in returned[n]}

NamedIn(s, n) ==
    {i \in 1..Len(s) : s[i].kind = "Logger" /\ heap[s[i].ptr].name = n}

\* C1: with one caller, once Register(n, d) has returned r, every later
\* Register(n, d') and GetLogger(n) returns r, whatever d' is: the calls for n
\* have handed out one instance, it is the one the registry finds under n, no
\* second logger named n has been allocated, and r.Description() is still the
\* d of the call that created it.
C1_RegisterIdempotent ==
    /\ \A n \in Names :
          /\ Cardinality(returned[n]) <= 1
          /\ \A o \in returned[n] :
                /\ registryGetLogger(n) = [logger |-> o.scope, ok |-> TRUE]
                /\ o.scope.kind = "Logger"
                /\ heap[o.scope.ptr].description = o.description
                /\ Cardinality({p \in DOMAIN heap : heap[p].name = n}) = 1
    /\ (last.op \in {"Register", "RegisterUnstructured"} /\ last.created)
          => heap[last.scope.ptr].description = last.description
    /\ (last.op = "GetLogger" /\ last.ok)
          => Instances(last.name) \subseteq {last.scope}

\* A second Register with another description has returned the existing logger.
C1_Witness ==
    /\ last.op = "Register"
    /\ ~last.created
    /\ last.scope.kind = "Logger"
    /\ heap[last.scope.ptr].description # last.description
    /\ Instances(last.name) = {last.scope}

\* C2: the Register calls racing on one name all return the same instance, and
\* once all of them have returned it is the instance GetLogger finds.
C2_RacingRegistersAgree ==
    \A n \in Names :
       /\ Cardinality(Instances(n)) <= 1
       /\ AllReturned =>
             \A r \in Instances(n) : registryGetLogger(n) = [logger |-> r, ok |-> TRUE]

\* C3: the instance stored under a name never changes.
C3_StoredInstanceNeverChanges ==
    [][\A n \in Names :
          registryGetLogger(n).ok => registryGetLogger(n)' = registryGetLogger(n)]_vars

\* C4: after the Register calls for a name have all returned, every slice
\* Loggers() can return holds exactly one logger of that name, and it is the
\* one GetLogger(name) returns.
C4_OneEntryPerName ==
    AllReturned =>
       \A n \in Names :
          returned[n] # {} =>
             /\ registryGetLogger(n).ok
             /\ \A s \in registryLoggers :
                   /\ Cardinality(NamedIn(s, n)) = 1
                   /\ \A i \in NamedIn(s, n) : s[i] = registryGetLogger(n).logger

\* Two racing Register calls for one name have both created a logger and returned.
C4_Witness ==
    /\ AllReturned
    /\ \E n \in Names : Cardinality(Instances(n)) >= 2

C10_RegisterUnstructuredIdempotent ==
    /\ \A n \in Names :
          /\ Cardinality(returned[n]) <= 1
          /\ \A o \in returned[n] :
                /\ registryGetLogger(n) = [logger |-> o.scope, ok |-> TRUE]
                /\ o.scope.kind = "Logger"
                /\ heap[o.scope.ptr].emit = o.emit
    /\ (last.op = "RegisterUnstructured" /\ last.created) =>
          /\ heap[last.scope.ptr].emit = "unstructuredLog"
          /\ heap[last.scope.ptr].name = last.name
          /\ loggers[last.name] = last.scope
    /\ (last.op = "RegisterUnstructured" /\ ~last.created) =>
          /\ loggers[last.name] = last.scope
          /\ last.scope.kind = "Logger"

\* RegisterUnstructured on a name Register created has returned the structured
\* logger.
C10_Witness ==
    /\ last.op = "RegisterUnstructured"
    /\ ~last.created
    /\ last.scope.kind = "Logger"
    /\ heap[last.scope.ptr].emit = "structuredLog"

C12_DistinctNamesKeepInsertions ==
    AllReturned =>
       \A n \in Names :
          (returned[n] # {}
             /\ Cardinality({p \in DOMAIN heap : heap[p].name = n}) = 1) =>
                /\ n \in DOMAIN loggers
                /\ \A o \in returned[n] : o.scope = loggers[n]

\* C12 witness: calls for the two names have returned, one logger each.
C12_Witness ==
    /\ AllReturned
    /\ \A n \in Names :
          /\ returned[n] # {}
          /\ Cardinality({p \in DOMAIN heap : heap[p].name = n}) = 1
    /\ last.created

(***************************************************************************)
(* Properties of the Logger value.                                         *)
(***************************************************************************)
\* The step in which thread t leaves the level check of a call.
Gated(t, label) == pc[t] = label /\ pc'[t] = "idle"

\* The step in which thread t enters a call.
Entered(t, label) == pc[t] = "idle" /\ pc'[t] = label

\* The positions of a call of Debug, Info or Error at its level check.
AtGate == {"Debug.enabled", "Info.enabled", "Error.enabled"}

\* The step writes exactly the line of the pending call of t at that level.
WritesLine(t, level) ==
    sink' = Append(sink, emit(heap[call[t].l], level, call[t].msg,
                              call[t].err, call[t].keyValues))

\* C5: with the configured level C when the call checks it, an Error call
\* writes its line iff C >= Error, an Info call iff C >= Info, a Debug call
\* iff C >= Debug; a call that does not write leaves the sink as it was, at
\* LevelNone no call writes, and no other step writes to the sink.
C5_LevelGate ==
    [][\A t \in Threads :
         LET C == Level(heap[call[t].l])
         IN /\ Gated(t, "Error.enabled") =>
                 IF C >= LevelError THEN WritesLine(t, LevelError)
                 ELSE sink' = sink
            /\ Gated(t, "Info.enabled") =>
                 IF C >= LevelInfo THEN WritesLine(t, LevelInfo)
                 ELSE sink' = sink
            /\ Gated(t, "Debug.enabled") =>
                 IF C >= LevelDebug THEN WritesLine(t, LevelDebug)
                 ELSE sink' = sink
            /\ (pc[t] \in AtGate /\ C = LevelNone) => sink' = sink
            /\ (\A u \in Threads : pc[u] = "idle") => sink' = sink]_vars

\* C5 witness: a Debug call has written its line (the level was raised to
\* Debug), and the level is now None with the next call waiting at its check.
C5_Witness ==
    /\ \E i \in DOMAIN sink : \E j \in DOMAIN sink[i] :
          sink[i][j] \in {<<"%s", "debug">>, <<"%-5v", "debug">>}
    /\ \A p \in DOMAIN heap : Level(heap[p]) = LevelNone

\* C6: an Info or Error call on a logger with a metric records exactly one
\* RecordContext(ctx, 1) with the logger's context, at every level, when the
\* call is entered, i.e. before the level is checked and before any line is
\* written; the level check records nothing more; a Debug call and a call on
\* a logger without a metric record nothing.
C6_MetricBeforeGate ==
    [][\A t \in Threads :
         /\ (Entered(t, "Info.enabled") \/ Entered(t, "Error.enabled")) =>
               LET l == heap[call'[t].l]
               IN /\ sink' = sink
                  /\ IF l.metric # "nil"
                     THEN recorded' = Append(recorded,
                                        [metric |-> l.metric, ctx |-> l.ctx,
                                         value |-> 1])
                     ELSE recorded' = recorded
         /\ Entered(t, "Debug.enabled") => recorded' = recorded
         /\ pc[t] # "idle" => recorded' = recorded]_vars

\* C6 witness: a call on a logger with a metric has returned without a line,
\* at LevelNone, and its record is there.
C6_Witness ==
    /\ \A t \in Threads : pc[t] = "idle"
    /\ sink = <<>>
    /\ Len(recorded) = 1 /\ recorded[1].value = 1
    /\ \A p \in DOMAIN heap : Level(heap[p]) = LevelNone

\* The values derived, through any chain, from the same registered logger.
Family(p) == {q \in DOMAIN heap : origin[q] = origin[p]}

\* C7: every value reads the level of the registered logger it derives from,
\* and SetLevel(L) on any value makes Level() return L, and the gate let
\* through exactly the levels up to L, on every value of its family.
C7_FamilySharesLevel ==
    /\ [](\A p \in DOMAIN heap : Level(heap[p]) = Level(heap[origin[p]]))
    /\ [][\A t \in Threads, p \in DOMAIN heap, L \in Levels :
            (levels' # levels /\ SetLevel(t, p, L)) =>
               \A q \in Family(p) :
                  /\ Level(heap[q])' = L
                  /\ \A lv \in Levels : enabled(heap[q], lv)' <=> lv <= L]_vars

\* C7 witness: a registered logger, a value derived from it and a value
\* derived from that one, all at a level that only SetLevel gives.
C7_Witness ==
    /\ Len(heap) = 3
    /\ Args(heap[1]) = <<>> /\ Args(heap[2]) # <<>> /\ heap[2].metric = "nil"
    /\ Args(heap[3]) = Args(heap[2]) /\ heap[3].metric # "nil"
    /\ Family(3) = {1, 2, 3}
    /\ \A q \in Family(3) : Level(heap[q]) = LevelDebug

\* The step is a call of With, Context or Metric on the value at p.
Derives(t, p) ==
    \/ \E kvs \in WithKeyValues : With(t, p, kvs)
    \/ \E ctx \in Contexts : Context(t, p, ctx)
    \/ \E m \in Metrics \cup {"nil"} : Metric(t, p, m)

\* C8: With, Context and Metric leave the receiver's pairs, context, metric,
\* name, description, writer and formatter as they were, and so the line the
\* receiver would emit for any call.
C8_DerivationKeepsReceiver ==
    [][\A t \in Threads, p \in DOMAIN heap :
         ((heap' # heap \/ last' # last) /\ Derives(t, p)) =>
            /\ ArgsNext(heap'[p]) = Args(heap[p])
            /\ heap'[p].ctx = heap[p].ctx
            /\ heap'[p].metric = heap[p].metric
            /\ heap'[p].name = heap[p].name
            /\ heap'[p].description = heap[p].description
            /\ heap'[p].writer = heap[p].writer
            /\ heap'[p].emit = heap[p].emit
            /\ \A lv \in Levels \ {LevelNone}, msg \in Messages,
                  err \in Errors \cup {NoError}, kvs \in CallKeyValues :
                  emit(heap'[p], lv, msg, err, kvs)
                     = emit(heap[p], lv, msg, err, kvs)]_vars

\* C8 witness: values were derived with pairs and with a metric from a
\* receiver that has neither.
C8_Witness ==
    /\ Len(heap) = 3
    /\ Args(heap[1]) = <<>> /\ heap[1].metric = "nil"
    /\ Args(heap[2]) # <<>>
    /\ heap[3].metric # "nil" /\ Args(heap[3]) = <<>>

\* The record an Info or Error call on l makes.
RecordOf(l) == [metric |-> l.metric, ctx |-> l.ctx, value |-> 1]

\* The level the check of the pending call of t loads.
Loaded(t) == levels[heap[call[t].l].level]

\* C13: with SetLevel running among Debug, Info and Error calls on the values
\* of a family, a level cell starts at Info and changes only in a SetLevel
\* step of that family, to the value passed, so every load returns the initial
\* level or a value passed to SetLevel; the check of each call lets the line
\* through iff the call's level is at most the value it loads; and the only
\* steps that record are the entries of Info and Error calls on a logger with
\* a metric, one record each.
C13_SetLevelAmongEmitters ==
    /\ [](\A p \in DOMAIN heap :
             Level(heap[p]) \in {LevelInfo} \cup SetLevelInputs)
    /\ [][/\ \A c \in DOMAIN levels' :
                IF c \notin DOMAIN levels THEN levels'[c] = LevelInfo
                ELSE \/ levels'[c] = levels[c]
                     \/ \E t \in Threads, p \in DOMAIN heap, L \in SetLevelInputs :
                           /\ SetLevel(t, p, L)
                           /\ heap[p].level = c /\ levels'[c] = L
          /\ \A t \in Threads :
                /\ pc[t] = "Error.enabled" /\ pc'[t] # pc[t] =>
                      (sink' # sink <=> LevelError <= Loaded(t))
                /\ pc[t] = "Info.enabled" /\ pc'[t] # pc[t] =>
                      (sink' # sink <=> LevelInfo <= Loaded(t))
                /\ pc[t] = "Debug.enabled" /\ pc'[t] # pc[t] =>
                      (sink' # sink <=> LevelDebug <= Loaded(t))
                /\ (Entered(t, "Info.enabled") \/ Entered(t, "Error.enabled")) =>
                      recorded' = IF heap[call'[t].l].metric # "nil"
                                  THEN Append(recorded, RecordOf(heap[call'[t].l]))
                                  ELSE recorded
          /\ recorded' # recorded =>
                \E t \in Threads :
                   Entered(t, "Info.enabled") \/ Entered(t, "Error.enabled")]_vars

\* C13 witness: two calls are between entry and check at once, the Info call
\* on a logger with a metric has made its record, and the level they will load
\* is one SetLevel has stored.
C13_Witness ==
    \E t, u \in Threads :
       /\ pc[t] = "Info.enabled" /\ pc[u] = "Debug.enabled"
       /\ heap[call[t].l].metric # "nil"
       /\ recorded = <<RecordOf(heap[call[t].l])>>
       /\ Loaded(t) = LevelNone

\* C14: no Debug, Info or Error call panics, whatever the message, the error,
\* the call's arguments, the logger's pairs and the sequence its context
\* gives: every call that reaches its level check returns.
C14_NoCallPanics == \A t \in Threads : pc[t] # "panic"

(***************************************************************************)
(* Properties of the structured formatter.  The rendering of a flat        *)
(* sequence is stated pair by pair: pair k is the elements 2k-1 and 2k.    *)
(***************************************************************************)
PairCount(seq) == (Len(seq) + 1) \div 2

ValuePiece(seq, k) ==
    IF 2 * k > Len(seq) THEN Lit("\"(MISSING)\"")
    ELSE IF IsString(seq[2 * k]) THEN <<"%q", seq[2 * k].v>>
    ELSE <<"%v", seq[2 * k].v>>

PairPieces(seq, k) ==
    IF IsString(seq[2 * k - 1])
    THEN <<Lit(" "), Lit(seq[2 * k - 1].v), Lit("="), ValuePiece(seq, k)>>
    ELSE <<>>

RECURSIVE PairsUpTo(_, _)
PairsUpTo(seq, k) ==
    IF k = 0 THEN <<>> ELSE PairsUpTo(seq, k - 1) \o PairPieces(seq, k)

Rendered(seq) == PairsUpTo(seq, PairCount(seq))

Header(l, level, msg) ==
    <<Lit("time=\""), Now, Lit("\" level="), <<"%s", levelToString[level]>>,
      Lit(" scope="), <<"%q", l.name>>, Lit(" msg="), <<"%q", msg>> >>

\* The level of the call thread t has pending.
CallLevel(t) ==
    CASE pc[t] = "Debug.enabled" -> LevelDebug
      [] pc[t] = "Info.enabled" -> LevelInfo
      [] pc[t] = "Error.enabled" -> LevelError

\* The step in which the pending call of t writes a structured line.
WritesStructured(t) ==
    /\ pc[t] \in AtGate /\ pc'[t] = "idle"
    /\ Len(sink') = Len(sink) + 1
    /\ heap[call[t].l].emit = "structuredLog"

Line == sink'[Len(sink')]

\* The pairs of a line of logger l for a call with the pairs kvs, in order.
AllPairs(l, kvs) ==
    Rendered(KeyValuesFromContext(l.ctx)) \o Rendered(Args(l)) \o Rendered(kvs)

\* The line of the example: Info("text"), context {ctx: "value"}, pairs
\* {lvl: "info"}.
ExampleLine ==
    <<Lit("time=\""), Now, Lit("\" level="), <<"%s", "info">>,
      Lit(" scope="), <<"%q", "a">>, Lit(" msg="), <<"%q", "text">>,
      Lit(" "), Lit("ctx"), Lit("="), <<"%q", "value">>,
      Lit(" "), Lit("lvl"), Lit("="), <<"%q", "info">>, Lit("\n")>>

\* C15: a structured line starts with the time/level/scope/msg header, then
\* has the pairs of the context, then the pairs accumulated by With, then the
\* pairs of the call, every pair of the three sequences in its place whether
\* or not its key occurs before; and the example call writes the example line.
C15_StructuredOrder ==
    [][\A t \in Threads :
         WritesStructured(t) =>
            LET l == heap[call[t].l]
                head == Header(l, CallLevel(t), call[t].msg)
                     \o AllPairs(l, call[t].keyValues)
            IN /\ SubSeq(Line, 1, Len(head)) = head
               /\ (/\ pc[t] = "Info.enabled" /\ call[t].msg = "text"
                   /\ call[t].keyValues = <<>>
                   /\ KeyValuesFromContext(l.ctx) = <<Str("ctx"), Str("value")>>
                   /\ Args(l) = <<Str("lvl"), Str("info")>>) => Line = ExampleLine]_vars

\* C15 witness: the example line has been written.
C15_Witness == sink = <<ExampleLine>>

\* C16: between header and tail a structured line has, for each of the three
\* sequences, exactly its pairs with a text key, each as key=value, a pair
\* without value as key="(MISSING)", and nothing for a pair whose key is not
\* text; ("where","there",1,"1") renders where="there" only, ("where")
\* renders where="(MISSING)".
C16_KeyRendering ==
    [][\A t \in Threads :
         WritesStructured(t) =>
            LET l == heap[call[t].l]
                kvs == call[t].keyValues
                n == Len(Header(l, CallLevel(t), call[t].msg))
                tail == IF call[t].err # NoError THEN 4 ELSE 1
                own == Len(Rendered(kvs))
                last3 == Len(Line) - tail
            IN /\ SubSeq(Line, n + 1, last3) = AllPairs(l, kvs)
               /\ kvs = <<Str("where"), Str("there"), Num("1"), Str("1")>> =>
                     SubSeq(Line, last3 - own + 1, last3)
                        = <<Lit(" "), Lit("where"), Lit("="), <<"%q", "there">> >>
               /\ kvs = <<Str("where")>> =>
                     SubSeq(Line, last3 - own + 1, last3)
                        = <<Lit(" "), Lit("where"), Lit("="),
                            Lit("\"(MISSING)\"")>>]_vars

\* C16 witness: a line of a logger whose context has a pair with a key that is
\* not text ends with where="there": the call's pair (1, "1") was skipped.
C16_Witness ==
    /\ Len(sink) = 1
    /\ \E p \in DOMAIN heap :
          /\ heap[p].emit = "structuredLog"
          /\ KeyValuesFromContext(heap[p].ctx)
                = <<Str("ctx"), Str("value"), Num("1"), Str("x")>>
    /\ \E i \in DOMAIN sink[1] :
          /\ sink[1][i] = <<"%q", "there">>
          /\ sink[1][i + 1] = Lit("\n")
          /\ sink[1][i - 4] = <<"%q", "value">>

\* The places of the piece that opens the error field in a line.
ErrorFields(line) == {i \in DOMAIN line : line[i] = Lit(" error=\"")}

\* C17: the line of an Error call with an error has one error="..." field,
\* after all pairs and right before the newline; the line of an Info or Debug
\* call, or of an Error call with a nil error, has none.
C17_ErrorField ==
    [][\A t \in Threads :
         WritesStructured(t) =>
            LET l == heap[call[t].l]
                body == Len(Header(l, CallLevel(t), call[t].msg))
                           + Len(AllPairs(l, call[t].keyValues))
            IN IF pc[t] = "Error.enabled" /\ call[t].err # NoError
               THEN /\ ErrorFields(Line) = {body + 1}
                    /\ SubSeq(Line, body + 1, Len(Line))
                          = <<Lit(" error=\""), <<"%s", call[t].err>>, Lit("\""),
                              Lit("\n")>>
               ELSE /\ ErrorFields(Line) = {}
                    /\ SubSeq(Line, body + 1, Len(Line)) = <<Lit("\n")>>]_vars

\* C17 witness: a structured line with pairs of the context, of With and of
\* the call ends with the error field and the newline.
C17_Witness ==
    /\ Len(sink) = 1
    /\ \E p \in DOMAIN heap : heap[p].emit = "structuredLog"
    /\ LET line == sink[1]
           n == Len(line)
       IN /\ n > 12
          /\ line[n - 3] = Lit(" error=\"")
          /\ line[n - 4] = <<"%q", "there">>
          /\ \E i \in DOMAIN line : line[i] = Lit("ctx")
          /\ \E i \in DOMAIN line : line[i] = Lit("lvl")

(***************************************************************************)
(* Properties of With.                                                     *)
(***************************************************************************)
\* The value a derivation step returns.
Result == heap'[last'.scope.ptr]

\* The last n elements of a sequence.
LastN(seq, n) == SubSeq(seq, Len(seq) - n + 1, Len(seq))

\* The line of an Info call without pairs on l, without the closing pieces
\* (the newline, and the bracket of an unstructured line).
InfoLine(l) ==
    LET line == emit(l, LevelInfo, "text", NoError, <<>>)
    IN SubSeq(line, 1, Len(line) - (IF l.emit = "structuredLog" THEN 1 ELSE 2))

\* C18: With("a", "b", "c") returns a new value whose pairs are the receiver's
\* followed by a, "b", c, "(MISSING)", and whose lines end with
\* a="b" c="(MISSING)"; in general a last key without value is paired with
\* "(MISSING)".
C18_WithOddArguments ==
    [][\A t \in Threads, p \in DOMAIN heap :
         last'.op = "With" =>
         /\ With(t, p, <<Str("a"), Str("b"), Str("c")>>) =>
               /\ last'.scope.ptr \notin DOMAIN heap
               /\ ArgsNext(Result) = Args(heap[p])
                     \o <<Str("a"), Str("b"), Str("c"), Str("(MISSING)")>>
               /\ LastN(InfoLine(heap[last.scope.ptr])', 7)
                     = <<Lit("a"), Lit("="), <<"%q", "b">>, Lit(" "),
                         Lit("c"), Lit("="), <<"%q", "(MISSING)">> >>
         /\ \A kvs \in DeriveWithKeyValues :
               (Len(kvs) % 2 = 1 /\ IsString(kvs[Len(kvs)]) /\ With(t, p, kvs)) =>
                  /\ Len(ArgsNext(Result)) >= 2
                  /\ LastN(ArgsNext(Result), 2) = <<kvs[Len(kvs)], Str("(MISSING)")>>]_vars

\* C18 witness: the value With("a", "b", "c") returned for a receiver that
\* had pairs already.
C18_Witness ==
    /\ last.op = "With"
    /\ last.scope.ptr = 3
    /\ Args(heap[3]) = <<Str("lvl"), Str("info"),
                        Str("a"), Str("b"), Str("c"), Str("(MISSING)")>>

\* The pairs of a flat sequence of even length whose key is text, in order.
RECURSIVE TextPairs(_, _)
TextPairs(seq, k) ==
    IF k = 0 THEN <<>>
    ELSE TextPairs(seq, k - 1)
         \o (IF IsString(seq[2 * k - 1]) THEN <<seq[2 * k - 1], seq[2 * k]>>
             ELSE <<>>)

\* C19: With returns a value whose pairs are the receiver's followed by the
\* given pairs with a text key, in the order given, the others dropped with
\* their values; the call returns; and when every given pair is dropped, as
\* for With(1, ""), the value emits the lines the receiver emits.
C19_WithDropsNonTextKeys ==
    [][\A t \in Threads, p \in DOMAIN heap, kvs \in DeriveWithKeyValues :
         (last'.op = "With" /\ Len(kvs) > 0 /\ With(t, p, kvs)) =>
            LET given == IF Len(kvs) % 2 = 1 THEN Append(kvs, Str("(MISSING)"))
                         ELSE kvs
                kept == TextPairs(given, Len(given) \div 2)
            IN /\ pc'[t] = "idle" /\ last'.op = "With"
               /\ ArgsNext(Result) = Args(heap[p]) \o kept
               /\ kept = <<>> =>
                     \A lv \in Levels \ {LevelNone}, msg \in Messages,
                        err \in Errors \cup {NoError}, ckvs \in CallKeyValues :
                        emit(heap[last.scope.ptr], lv, msg, err, ckvs)'
                           = emit(heap[p], lv, msg, err, ckvs)]_vars

\* C19 witness: With("k", "v", 1, "x", "w", "z") and With(1, "") have returned:
\* the pair (1, "x") between two kept pairs is gone, and the value of
\* With(1, "") has the pairs of its receiver.
C19_Witness ==
    /\ Len(heap) = 3
    /\ Args(heap[1]) = <<>>
    /\ Args(heap[2]) = <<Str("k"), Str("v"), Str("w"), Str("z")>>
    /\ Args(heap[3]) = Args(heap[2])
    /\ last.op = "With" /\ last.scope.ptr = 3

\* C20: With() returns its receiver: no value is allocated, and the pairs,
\* context, metric, writer, formatter and level cell of the value returned
\* are those of the receiver, being the same object; nothing else changes.
C20_WithNothing ==
    [][\A t \in Threads, p \in DOMAIN heap :
         With(t, p, <<>>) =>
            /\ last'.op = "With" /\ last'.scope = LoggerScope(p)
            /\ heap' = heap /\ levels' = levels /\ origin' = origin
            /\ arrays' = arrays
            /\ Result = heap[p]
            /\ loggers' = loggers /\ sink' = sink /\ recorded' = recorded]_vars

\* C20 witness: With() on the registered logger has returned it, after values
\* were derived from it.
C20_Witness ==
    /\ last.op = "With"
    /\ last.scope = LoggerScope(1)
    /\ Len(heap) > 1

(***************************************************************************)
(* Properties of the unstructured formatter.                               *)
(***************************************************************************)
\* The step in which the pending call of t writes an unstructured line.
WritesUnstructured(t) ==
    /\ pc[t] \in AtGate /\ pc'[t] = "idle"
    /\ Len(sink') = Len(sink) + 1
    /\ heap[call[t].l].emit = "unstructuredLog"

\* The number of pieces before the bracket: time, level, name, message and
\* what separates them.
PrefixLen == Len(<<Now, Lit("  "), <<"%-5v", "info">>, Lit("\t"),
                   <<"%-10s", "a">>, Lit("\t"), <<"Sprintf", "text">> >>)

\* The places of the pieces that open and close the bracket in a line.
Brackets(line) == {i \in DOMAIN line : line[i] \in {Lit(" ["), Lit("]")}}

\* C21: an unstructured line has the bracket iff the context or the logger
\* has at least one pair; the bracket then holds the pairs of the context
\* followed by the pairs of the logger, the first without its leading space,
\* and nothing of the call's arguments, which are operands of the message
\* only; without such a pair the line has neither " [" nor "]".
C21_BracketSuffix ==
    [][\A t \in Threads :
         WritesUnstructured(t) =>
            LET l == heap[call[t].l]
                fromCtx == KeyValuesFromContext(l.ctx)
                pairs == Rendered(fromCtx) \o Rendered(Args(l))
                suffix == SubSeq(Line, PrefixLen + 1, Len(Line) - 1)
            IN /\ Line[Len(Line)] = Lit("\n")
               /\ Line[PrefixLen][1] = "Sprintf"
               /\ Brackets(SubSeq(Line, 1, PrefixLen)) = {}
               /\ IF Len(fromCtx) > 0 \/ Len(Args(l)) > 0
                  THEN suffix = <<Lit(" [")>> \o Tail(pairs) \o <<Lit("]")>>
                  ELSE suffix = <<>>]_vars

\* C21 witness: a call with arguments has written a line whose bracket holds
\* one pair of the context and one of the logger, and the line ends there.
C21_Witness ==
    /\ Len(sink) = 1
    /\ \E p \in DOMAIN heap :
          /\ heap[p].emit = "unstructuredLog"
          /\ KeyValuesFromContext(heap[p].ctx) = <<Str("ctx"), Str("value")>>
          /\ Args(heap[p]) = <<Str("lvl"), Str("info")>>
    /\ sink[1][PrefixLen] = <<"Sprintf", "hi %s", "there">>
    /\ SubSeq(sink[1], PrefixLen + 1, Len(sink[1]))
          = <<Lit(" ["), Lit("ctx"), Lit("="), <<"%q", "value">>,
              Lit(" "), Lit("lvl"), Lit("="), <<"%q", "info">>,
              Lit("]"), Lit("\n")>>

\* The call Info("hi %s", "there") on a logger without pairs, at level Info,
\* writing its line.
WritesHiThere(t) ==
    /\ WritesUnstructured(t)
    /\ pc[t] = "Info.enabled"
    /\ call[t].msg = "hi %s" /\ call[t].keyValues = <<Str("there")>>
    /\ KeyValuesFromContext(heap[call[t].l].ctx) = <<>>
    /\ Args(heap[call[t].l]) = <<>>
    /\ Level(heap[call[t].l]) = LevelInfo

DiscardRecords(d) ==
    IF discards[d].metric = "nil" THEN <<>>
    ELSE <<[metric |-> discards[d].metric, ctx |-> discards[d].ctx, value |-> 1]>>

\* The step returned a Discard that was not there before, with the context
\* ctx and the metric m, and every Discard there was is as it was.
ReturnsNewDiscard(ctx, m) ==
    /\ last'.scope = DiscardScope(Len(discards) + 1)
    /\ DOMAIN discards' = DOMAIN discards \cup {Len(discards) + 1}
    /\ discards'[Len(discards) + 1] = [ctx |-> ctx, metric |-> m]
    /\ \A i \in DOMAIN discards : discards'[i] = discards[i]

\* C23: nothing is ever written while only Discard loggers are called and
\* the registry never holds a Discard; Info and Error on a Discard record
\* one RecordContext(ctx, 1) on its metric, or nothing without a metric, at
\* whatever level the registered loggers are; Debug records nothing; With
\* returns the receiver; Context and Metric return a new Discard with the
\* one field replaced and leave every existing Discard as it was.
C23_Discard ==
    /\ [](/\ sink = <<>>
          /\ \A n \in DOMAIN loggers : loggers[n].kind = "Logger")
    /\ [][\A t \in Threads, d \in DOMAIN discards :
            /\ (\/ \E msg \in Messages, kvs \in DiscardCallKeyValues :
                      DiscardInfo(t, d, msg, kvs)
                \/ \E msg \in Messages, kvs \in DiscardCallKeyValues,
                      err \in Errors : DiscardError(t, d, msg, err, kvs))
                  => /\ recorded' = recorded \o DiscardRecords(d)
                     /\ discards' = discards
            /\ (\E msg \in Messages, kvs \in DiscardCallKeyValues :
                   DiscardDebug(t, d, msg, kvs))
                  => recorded' = recorded /\ discards' = discards
            /\ \A kvs \in DiscardWithKeyValues :
                  DiscardWith(t, d, kvs)
                     => /\ last'.scope = DiscardScope(d)
                        /\ discards' = discards /\ recorded' = recorded
            /\ \A ctx \in Contexts :
                  DiscardContext(t, d, ctx)
                     => /\ ReturnsNewDiscard(ctx, discards[d].metric)
                        /\ recorded' = recorded
            /\ \A m \in Metrics \cup {"nil"} :
                  DiscardMetric(t, d, m)
                     => /\ ReturnsNewDiscard(discards[d].ctx, m)
                        /\ recorded' = recorded]_vars

\* C23 witness: NewDiscard().Context(ctx).Metric(m) was built, Info or Error
\* on it and on the first Discard recorded once, for the metric and with the
\* context, a logger is registered, and With returned last.
C23_Witness ==
    /\ Len(discards) = 3
    /\ discards[1] = [ctx |-> Background, metric |-> "nil"]
    /\ discards[3] = [ctx |-> [keyValues |-> <<Str("ctx"), Str("value")>>],
                      metric |-> "m1"]
    /\ recorded = <<[metric |-> "m1",
                     ctx |-> [keyValues |-> <<Str("ctx"), Str("value")>>],
                     value |-> 1]>>
    /\ DOMAIN loggers # {}
    /\ last.op = "Discard.With" /\ last.scope = DiscardScope(3)

(***************************************************************************)
(* Properties of Level.                                                    *)
(***************************************************************************)
\* The four tokens.
LevelTokens == {"none", "error", "info", "debug"}

\* C24: String gives "none", "error", "info" and "debug" for LevelNone,
\* LevelError, LevelInfo and LevelDebug; AsLevel of the string String gave
\* for one of the four levels is that level with ok = true; and AsLevel
\* answers ok = true for the four tokens only: any other string, whether it
\* differs by case, by a space, or is empty, gets ok = false.
C24_LevelRoundTrip ==
    \A t \in Threads :
       /\ call[t].op = "String" =>
             /\ call[t].arg = LevelNone => call[t].str = "none"
             /\ call[t].arg = LevelError => call[t].str = "error"
             /\ call[t].arg = LevelInfo => call[t].str = "info"
             /\ call[t].arg = LevelDebug => call[t].str = "debug"
       /\ (call[t].op = "AsLevel(String)" /\ call[t].arg \in Levels) =>
             call[t].ok /\ call[t].level = call[t].arg
       /\ call[t].op = "AsLevel" =>
             /\ call[t].ok <=> call[t].arg \in LevelTokens
             /\ call[t].arg = "none" => call[t].level = LevelNone
             /\ call[t].arg = "error" => call[t].level = LevelError
             /\ call[t].arg = "info" => call[t].level = LevelInfo
             /\ call[t].arg = "debug" => call[t].level = LevelDebug

\* C24 witness: one thread has taken LevelDebug to its string and back, the
\* other has called AsLevel on "INFO" and got ok = false.
C24_Witness ==
    \E t, u \in Threads :
       /\ call[t] = [op |-> "AsLevel(String)", arg |-> LevelDebug,
                     level |-> LevelDebug, ok |-> TRUE]
       /\ call[u].op = "AsLevel" /\ call[u].arg = "INFO" /\ ~call[u].ok

(***************************************************************************)
(* Properties of the calls of one caller.                                  *)
(***************************************************************************)
\* The pieces that are the end of a line.
Newlines(line) == {i \in DOMAIN line : line[i] = Lit("\n")}

\* The line has the level and the message of a call.
LineOf(line, level, msg) ==
    /\ \E i \in DOMAIN line :
          line[i] \in {<<"%s", levelToString[level]>>,
                       <<"%-5v", levelToString[level]>>}
    /\ \E i \in DOMAIN line :
          \/ line[i] = <<"%q", msg>>
          \/ line[i][1] = "Sprintf" /\ line[i][2] = msg

\* C25: with one caller, a call that returns with its level enabled has put
\* exactly one line after the lines of the calls before it, which stay as
\* they were: the line of this call, ended by its only newline; a call that
\* returns with its level not enabled leaves the sink as it was; and no step
\* but the return of a call changes the sink.
C25_CallOrder ==
    [][/\ \A t \in Threads :
            (pc[t] \in AtGate /\ pc'[t] = "idle") =>
               IF CallLevel(t) <= Level(heap[call[t].l])
               THEN /\ Len(sink') = Len(sink) + 1
                    /\ SubSeq(sink', 1, Len(sink)) = sink
                    /\ Newlines(Line) = {Len(Line)}
                    /\ LineOf(Line, CallLevel(t), call[t].msg)
               ELSE sink' = sink
       /\ (\A t \in Threads : pc[t] \notin AtGate) => sink' = sink]_vars

\* C25 witness: three Info or Error calls on a value with a metric have
\* returned, one of them suppressed; the sink has the line of an Info call
\* with "text" and after it the line of an Error call with "hi %s".
C25_Witness ==
    /\ \A t \in Threads : pc[t] = "idle"
    /\ Len(recorded) = 3
    /\ Len(sink) = 2
    /\ LineOf(sink[1], LevelInfo, "text")
    /\ LineOf(sink[2], LevelError, "hi %s")
    /\ \A i \in DOMAIN sink : Newlines(sink[i]) = {Len(sink[i])}

\* The step allocates a logger with a level cell of its own: newLogger ran.
Creates == Len(heap') = Len(heap) + 1 /\ Len(levels') = Len(levels) + 1

\* C26: a logger created by Register or RegisterUnstructured has a new level
\* cell that holds LevelInfo; a level cell changes only in a SetLevel call on
\* a value of that logger, to the level given; so until SetLevel is called
\* the level is LevelInfo, at which an Info and an Error call write a line
\* and a Debug call writes nothing; at LevelDebug a Debug call writes a line.
C26_StartsAtInfo ==
    [][/\ Creates =>
            /\ heap'[Len(heap')].level = Len(levels')
            /\ levels'[Len(levels')] = LevelInfo
            /\ heap'[Len(heap')].emit \in {"structuredLog", "unstructuredLog"}
       /\ \A c \in DOMAIN levels :
             levels'[c] # levels[c] =>
                \E t \in Threads, p \in DOMAIN heap :
                   /\ heap[p].level = c
                   /\ SetLevel(t, p, levels'[c])
       /\ \A t \in Threads :
             (pc[t] \in AtGate /\ pc'[t] = "idle") =>
                LET C == Level(heap[call[t].l])
                IN /\ (C = LevelInfo /\ pc[t] \in {"Info.enabled", "Error.enabled"})
                         => /\ Len(sink') = Len(sink) + 1
                            /\ LineOf(Line, CallLevel(t), call[t].msg)
                   /\ (C = LevelInfo /\ pc[t] = "Debug.enabled") => sink' = sink
                   /\ (C = LevelDebug /\ pc[t] = "Debug.enabled")
                         => /\ Len(sink') = Len(sink) + 1
                            /\ LineOf(Line, LevelDebug, call[t].msg)]_vars

\* C26 witness: an unstructured logger has written the line of an Info call
\* and then, at LevelDebug, the line of a Debug call.
C26_Witness ==
    /\ Len(heap) >= 1 /\ heap[1].emit = "unstructuredLog"
    /\ Level(heap[1]) = LevelDebug
    /\ Len(sink) = 2
    /\ LineOf(sink[1], LevelInfo, "text")
    /\ LineOf(sink[2], LevelDebug, "text")

(***************************************************************************)
(* Properties of the storage of args.                                      *)
(***************************************************************************)
\* The arrays the args of the published values other than p use.
ArraysOfOthers(p) == {heap[r].args.arr : r \in Published \ {p}}

\* C27: whatever callers do at the same time, a With call P.With(x...)
\* returns a value whose pairs are the pairs of P followed by the pairs of x
\* with a text key, in an array no other value uses; and no step changes the
\* pairs of a value that has been returned, so the pairs of A = P.With(x...)
\* and of B = P.With(y...) stay what they were at the return, in whichever
\* order the two calls and later With calls on A, B or P run.
C27_ArgsNotShared ==
    [][/\ \A t \in Threads :
            (pc[t] = "With.append" /\ pc'[t] = "idle") =>
               LET x == call[t].keyValues
               IN /\ ArgsNext(heap'[call[t].new])
                        = Args(heap[call[t].l]) \o TextPairs(x, Len(x) \div 2)
                  /\ heap'[call[t].new].args.arr \notin ArraysOfOthers(call[t].new)
       /\ \A p \in Published : ArgsNext(heap'[p]) = Args(heap[p])]_vars

\* C27 witness: P has three pairs in an array with room for a fourth; two
\* With calls on P have returned A with P's pairs and x, and B with P's pairs
\* and y, each in an array of its own.
C27_Witness ==
    /\ Len(heap) = 4 /\ Published = DOMAIN heap
    /\ heap[2].args.len = 6 /\ heap[2].args.cap = 8
    /\ Args(heap[3]) = Args(heap[2]) \o <<Str("x"), Str("1")>>
    /\ Args(heap[4]) = Args(heap[2]) \o <<Str("y"), Str("(MISSING)")>>
    /\ Cardinality({heap[p].args.arr : p \in 2..4}) = 3

(***************************************************************************)
(* Properties of chains of derived values.                                 *)
(***************************************************************************)
\* The logger created by Register or RegisterUnstructured that the value p
\* derives from.
Root(p) == heap[origin[p]]

\* C28: every value has the formatter, the name and the description of the
\* registered logger it derives from, through any chain of With, Context,
\* Metric and Writer; and a line it writes is a structured line (it starts
\* with time=") if that logger came from Register and an unstructured line
\* (it starts with the time) if it came from RegisterUnstructured, with that
\* logger's name.
C28_FormatterInherited ==
    /\ [](\A p \in DOMAIN heap :
             /\ heap[p].emit = Root(p).emit
             /\ heap[p].name = Root(p).name
             /\ heap[p].description = Root(p).description)
    /\ [][\A t \in Threads :
            (pc[t] \in AtGate /\ pc'[t] = "idle" /\ Len(sink') = Len(sink) + 1) =>
               LET root == Root(call[t].l)
               IN IF root.emit = "structuredLog"
                  THEN /\ Line[1] = Lit("time=\"")
                       /\ Line[6] = <<"%q", root.name>>
                  ELSE /\ root.emit = "unstructuredLog"
                       /\ Line[1] = Now
                       /\ Line[5] = <<"%-10s", root.name>>]_vars

\* C28 witness: a value two derivations away from an unstructured logger (a
\* Writer call and a With call) has written an unstructured line.
C28_Witness ==
    /\ Len(heap) = 3 /\ heap[1].emit = "unstructuredLog"
    /\ heap[2].writer = "buffer"
    /\ Args(heap[3]) # <<>> /\ heap[3].writer = "buffer"
    /\ Len(sink) = 1 /\ sink[1][1] = Now
    /\ \E i \in DOMAIN sink[1] : sink[1][i] = Lit(" [")

\* The keys of a flat sequence of pairs: the elements at the even indices,
\* counted from 0.
KeysOf(seq) == {seq[i] : i \in {j \in DOMAIN seq : j % 2 = 1}}

\* C29: the args of every logger value have even length and a text key at
\* every even index (counted from 0), whatever With, Context, Metric and
\* Writer were called with; so for args that are not empty the conversion of
\* the first key in writeKeyValue and the slice args[2:] do not panic.
C29_ArgsWellFormed ==
    \A p \in DOMAIN heap :
       /\ Len(Args(heap[p])) % 2 = 0
       /\ \A k \in KeysOf(Args(heap[p])) : IsString(k)
       /\ Len(Args(heap[p])) > 0 =>
             /\ ~writeKeyValuePanics(Args(heap[p]), 0, Len(Args(heap[p])))
             /\ ~slicePanics(Args(heap[p]))

\* C29 witness: With("missing") gave a value the pair of the key without
\* value, and With(1, "") on that value gave a new value with the same pairs:
\* the pair with the key 1 is not there.
C29_Witness ==
    /\ Len(heap) = 3
    /\ Args(heap[2]) = <<Str("missing"), Str("(MISSING)")>>
    /\ Args(heap[3]) = Args(heap[2])
    /\ heap[3].args.arr # heap[2].args.arr
    /\ last.op = "With" /\ last.scope.ptr = 3

(***************************************************************************)
(* Properties of the registry lock.                                        *)
(***************************************************************************)
\* C30: a caller that is not inside a Register, GetLogger or Loggers call
\* holds no registry lock, so every call has released it when it returns and
\* no logger is used under it (SetLevel, Info); no caller takes the lock, for
\* reading or for writing, while it holds it; and every caller is again and
\* again outside the registry calls, which a call leaves only by returning.
C30_LockReleased ==
    /\ [](\A t \in Threads : pc[t] \notin InRegistry => ~Holds(mu, t))
    /\ [][\A t \in Threads : Use(t) => ~Holds(mu, t)]_vars
    /\ [][\A t \in Threads :
            (mu'.readers[t] > mu.readers[t] \/ (mu'.w = t /\ mu.w # t))
               => ~Holds(mu, t)]_vars
    /\ \A t \in Threads : []<>(pc[t] \notin InRegistry)

\* C30 witness: a Register call has returned the logger it stored, and now
\* another Register call has the lock for writing while a third call waits
\* in RLock.
C30_Witness ==
    /\ last.op = "Register" /\ last.created
    /\ mu.locked
    /\ \E t \in Threads : pc[t] \in {AtRLock[op] : op \in Lookups} \cup {"Loggers.RLock"}

=============================================================================
